---- MODULE Spec2Model ----
(***************************************************************************)
(* Telemetry animation tools: sessionTelemetry.py (F1AnimationTool, the    *)
(* "session" tool) and qualiTelSimv2.py                                    *)
(* (F1LaptimeSimulatorLayeredDominance, the "quali" tool).                 *)
(*                                                                         *)
(* A run is load_data -> calculate_sector_dominance -> setup_plots ->      *)
(* initialize_animation_objects -> animate_frame for frame = 0, 1, ...     *)
(* Sequences are 1-based here and 0-based in the source: source index i    *)
(* is element i + 1.                                                       *)
(***************************************************************************)
EXTENDS Integers, Sequences, FiniteSets, TLC

VARIABLES
    pc,                      \* position in run_animation / run_simulation
    ui,                      \* get_user_input's position and locals
    tool,                    \* "session" or "quali"
    session_results,         \* the provider's answer: session.results with laps
    selected_drivers,        \* load_data's argument; <<>> is None
    num_sectors,             \* calculate_sector_dominance's argument
    track_raw,               \* tel['X'], tel['Y'] of the first driver, as <<x, y>>
                             \* points; <<>> when the frame has no such columns
    drivers_data,            \* ordered dict, as a sequence of driver records
    sectors,                 \* the (i, sector_end) pairs the sector loop visited
    sector_colors,
    sector_dominant_drivers,
    dominance_calls,         \* the calls of calculate_sector_dominance so far
    track_len,               \* len(track_x) = len(track_y)
    best_rotation,           \* the angle optimize_track_layout chose, -1 before
    reference_driver,
    deltas,                  \* driver -> the raw deltas (the local of line 365)
    precomputed_deltas,      \* driver -> data['precomputed_deltas']
    car_markers,             \* driver -> [center, zorder]
    telemetry_collections,   \* driver -> [zorder, segments], zorder by collection type
    track_collection,        \* [segments, colors]
    frame,                   \* the frame last passed to animate_frame, -1 before
    reads                    \* the indexed reads of the last animate_frame call

inputVars == <<ui, tool, session_results, selected_drivers, num_sectors, track_raw>>

trackVars == <<track_len, best_rotation>>

domVars == <<sectors, sector_colors, sector_dominant_drivers, dominance_calls>>

deltaVars == <<reference_driver, deltas, precomputed_deltas>>

artistVars == <<car_markers, telemetry_collections, track_collection>>

vars == <<pc, inputVars, drivers_data, domVars, trackVars, deltaVars, artistVars,
          frame, reads>>

(***************************************************************************)
(* Bounds of the model.                                                    *)
(***************************************************************************)
MaxLen == 6          \* longest trace of the dominance inputs of one or two drivers
MaxLen3 == 2         \* longest trace of the dominance inputs of three drivers
MaxSectors == 2      \* largest num_sectors of the exhaustive dominance inputs

(***************************************************************************)
(* Arithmetic and sequence helpers (Python built-ins).                     *)
(***************************************************************************)
Min2(a, b) == IF a <= b THEN a ELSE b

Max2(a, b) == IF a >= b THEN a ELSE b

SetMin(S) == CHOOSE x \in S : \A y \in S : x <= y

SetMax(S) == CHOOSE x \in S : \A y \in S : x >= y

RECURSIVE SeqSum(_)
SeqSum(s) == IF s = <<>> THEN 0 ELSE Head(s) + SeqSum(Tail(s))

\* [x] * n
Repeat(x, n) == [k \in 1..n |-> x]

\* s[a:b] for 0 <= a, b: a slice never faults, it stops at the end of s
PySlice(s, a, b) == SubSeq(s, a + 1, Min2(b, Len(s)))

\* len(telemetry): the number of rows of the frame
len(telemetry) == Len(telemetry.Speed)

(***************************************************************************)
(* Typed text.  An answer to input() is a sequence of one-character        *)
(* strings; strip, upper, split and int are the str methods and the        *)
(* built-in the prompts apply to it.                                       *)
(***************************************************************************)
DigitValue ==
    ("0" :> 0) @@ ("1" :> 1) @@ ("2" :> 2) @@ ("3" :> 3) @@ ("4" :> 4) @@
    ("5" :> 5) @@ ("6" :> 6) @@ ("7" :> 7) @@ ("8" :> 8) @@ ("9" :> 9)

LowerToUpper ==
    ("a" :> "A") @@ ("b" :> "B") @@ ("c" :> "C") @@ ("e" :> "E") @@
    ("f" :> "F") @@ ("h" :> "H") @@ ("l" :> "L") @@ ("m" :> "M") @@
    ("n" :> "N") @@ ("o" :> "O") @@ ("p" :> "P") @@ ("q" :> "Q") @@
    ("r" :> "R") @@ ("v" :> "V") @@ ("x" :> "X")

RECURSIVE lstrip(_)
lstrip(s) == IF s # <<>> /\ Head(s) = " " THEN lstrip(Tail(s)) ELSE s

RECURSIVE rstrip(_)
rstrip(s) ==
    IF s # <<>> /\ s[Len(s)] = " " THEN rstrip(SubSeq(s, 1, Len(s) - 1)) ELSE s

strip(s) == rstrip(lstrip(s))

upper(s) ==
    [i \in 1..Len(s) |-> IF s[i] \in DOMAIN LowerToUpper THEN LowerToUpper[s[i]] ELSE s[i]]

\* s.split(','): the pieces between the commas, empty pieces included
RECURSIVE split(_)
split(s) ==
    IF \E i \in 1..Len(s) : s[i] = ","
    THEN LET i == CHOOSE k \in 1..Len(s) :
                    s[k] = "," /\ \A j \in 1..(k - 1) : s[j] # ","
         IN  <<SubSeq(s, 1, i - 1)>> \o split(SubSeq(s, i + 1, Len(s)))
    ELSE <<s>>

\* the text without its sign
Unsigned(s) == IF s # <<>> /\ Head(s) \in {"+", "-"} THEN Tail(s) ELSE s

\* int(s) returns a value: an optional sign and one or more digits; any other
\* stripped text raises ValueError
IsIntText(s) ==
    /\ Unsigned(s) # <<>>
    /\ \A i \in 1..Len(Unsigned(s)) : Unsigned(s)[i] \in DOMAIN DigitValue

RECURSIVE DigitsValue(_)
DigitsValue(s) ==
    IF s = <<>> THEN 0
    ELSE 10 * DigitsValue(SubSeq(s, 1, Len(s) - 1)) + DigitValue[s[Len(s)]]

int(s) == IF Head(s) = "-" THEN 0 - DigitsValue(Unsigned(s)) ELSE DigitsValue(Unsigned(s))

\* the abbreviation a typed entry spells, as the run's driver keys are written
Word(w) ==
    CASE w = <<"V", "E", "R">> -> "VER"
      [] w = <<"H", "A", "M">> -> "HAM"
      [] w = <<"L", "E", "C">> -> "LEC"
      [] w = <<"N", "O", "R">> -> "NOR"
      [] OTHER -> "XXX"

(***************************************************************************)
(* get_user_input.  ui is the function's position and locals: the prompt   *)
(* it is at, the text last typed, and the values accepted so far.  Each    *)
(* prompt action is one input() call with what follows it up to the next   *)
(* input() call or the return.                                             *)
(***************************************************************************)
\* what may be typed at the year prompt
YearAnswers ==
    {<<>>,
     <<" ">>,
     <<"2", "0", "1", "8">>,
     <<" ", "2", "0", "2", "5", " ">>,
     <<"2", "0", "1", "7">>,
     <<"2", "0", "2", "6">>,
     <<"a", "b", "c">>,
     <<"2", "0", "x", "5">>,
     <<"-", "2", "0", "2", "0">>}

\* what may be typed at the round prompt
RoundAnswers ==
    {<<>>,
     <<"1">>,
     <<" ", "2", "4">>,
     <<"0">>,
     <<"2", "5">>,
     <<"x">>}

\* what may be typed at the session prompt
SessionAnswers ==
    {<<>>,
     <<"q">>,
     <<"R">>,
     <<" ", "f", "p", "1", " ">>,
     <<"F", "P", "4">>,
     <<"r", "a", "c", "e">>}

\* what may be typed at the choice prompt
ChoiceAnswers ==
    {<<>>,
     <<"1">>,
     <<" ", "2", " ">>,
     <<"3">>,
     <<"1", "2">>}

\* what may be typed at the driver prompt
DriverAnswers ==
    {<<>>,
     <<" ">>,
     <<"v", "e", "r">>,
     <<"v", "e", "r", ",", "h", "a", "m">>,
     <<" ", "V", "e", "r", " ", ",", " ", "H", "A", "M", " ", ",">>,
     <<"v", "e", "r", ",", ",", "h", "a", "m", ",", "l", "e", "c">>,
     <<"v", "e", "r", ",", "h", "a", "m", ",", "l", "e", "c", ",", "n", "o", "r">>,
     <<",", ",">>,
     <<"x", "x", "x", ",", "v", "e", "r">>}

SessionNames == {<<"Q">>, <<"R">>, <<"F", "P", "1">>, <<"F", "P", "2">>, <<"F", "P", "3">>}

MinYear == 2018

MaxYear == 2025

MinRound == 1

MaxRound == 24

\* the locals of a call that has returned with the defaults of run_simulation
UiDone ==
    [stage |-> "returned", typed |-> <<>>, year |-> 2025, round_num |-> 16,
     session_name |-> <<"Q">>, choice |-> <<"1">>, selected_drivers |-> <<>>]

UiStart ==
    [stage |-> "year", typed |-> <<>>, year |-> 0, round_num |-> 0,
     session_name |-> <<>>, choice |-> <<>>, selected_drivers |-> <<>>]

runVars == <<tool, session_results, num_sectors, track_raw, drivers_data, domVars,
             trackVars, deltaVars, artistVars, frame, reads>>

\* the first while loop: the year
PromptYear ==
    /\ pc = "input"
    /\ ui.stage = "year"
    /\ \E text \in YearAnswers :
        LET year_input == strip(text)
        IN  ui' = IF /\ year_input # <<>>
                     /\ IsIntText(year_input)
                     /\ int(year_input) >= MinYear
                     /\ int(year_input) <= MaxYear
                  THEN [ui EXCEPT !.typed = text, !.year = int(year_input),
                                  !.stage = "round"]
                  ELSE [ui EXCEPT !.typed = text]
    /\ UNCHANGED <<pc, selected_drivers, runVars>>

\* the second while loop: the round number
PromptRound ==
    /\ pc = "input"
    /\ ui.stage = "round"
    /\ \E text \in RoundAnswers :
        LET round_input == strip(text)
        IN  ui' = IF /\ round_input # <<>>
                     /\ IsIntText(round_input)
                     /\ int(round_input) >= MinRound
                     /\ int(round_input) <= MaxRound
                  THEN [ui EXCEPT !.typed = text, !.round_num = int(round_input),
                                  !.stage = "session"]
                  ELSE [ui EXCEPT !.typed = text]
    /\ UNCHANGED <<pc, selected_drivers, runVars>>

\* the third while loop: the session
PromptSession ==
    /\ pc = "input"
    /\ ui.stage = "session"
    /\ \E text \in SessionAnswers :
        LET session_input == upper(strip(text))
        IN  ui' = IF session_input \in SessionNames
                  THEN [ui EXCEPT !.typed = text, !.session_name = session_input,
                                  !.stage = "choice"]
                  ELSE [ui EXCEPT !.typed = text]
    /\ UNCHANGED <<pc, selected_drivers, runVars>>

\* the fourth while loop: the choice; choice '1' returns with no selection
PromptChoice ==
    /\ pc = "input"
    /\ ui.stage = "choice"
    /\ \E text \in ChoiceAnswers :
        LET choice == strip(text)
        IN  CASE choice = <<"1">> ->
                    /\ ui' = [ui EXCEPT !.typed = text, !.choice = choice,
                                        !.selected_drivers = <<>>,
                                        !.stage = "returned"]
                    /\ selected_drivers' = <<>>
                    /\ pc' = "start"
              [] choice = <<"2">> ->
                    /\ ui' = [ui EXCEPT !.typed = text, !.choice = choice,
                                        !.stage = "drivers"]
                    /\ UNCHANGED <<pc, selected_drivers>>
              [] OTHER ->
                    /\ ui' = [ui EXCEPT !.typed = text]
                    /\ UNCHANGED <<pc, selected_drivers>>
    /\ UNCHANGED runVars

\* [d.strip().upper() for d in driver_input.split(',') if d.strip()]
TypedDrivers(driver_input) ==
    LET pieces == split(driver_input)
        kept == SelectSeq(pieces, LAMBDA d : strip(d) # <<>>)
    IN  [k \in 1..Len(kept) |-> upper(strip(kept[k]))]

\* the selection the function returns for the text typed at the driver prompt
Selection(text) ==
    LET driver_input == strip(text)
        typed == TypedDrivers(driver_input)
    IN  IF driver_input = <<>> THEN <<>>
        ELSE IF Len(typed) < 2 THEN <<>>
        ELSE IF Len(typed) > 3 THEN SubSeq(typed, 1, 3)
        ELSE typed

\* the driver prompt of choice '2', asked once, and the return
PromptDrivers ==
    /\ pc = "input"
    /\ ui.stage = "drivers"
    /\ \E text \in DriverAnswers :
        /\ ui' = [ui EXCEPT !.typed = text, !.selected_drivers = Selection(text),
                            !.stage = "returned"]
        /\ selected_drivers' = [k \in 1..Len(Selection(text)) |-> Word(Selection(text)[k])]
    /\ pc' = "start"
    /\ UNCHANGED runVars

(***************************************************************************)
(* load_data's colour table and record construction.                       *)
(***************************************************************************)
\* driver_colors of the session tool, restricted to the drivers of the model
driver_colors ==
    [VER |-> "#23326A", HAM |-> "#ff2800", LEC |-> "#dc0000", NOR |-> "#FF8700"]

FallbackColors == <<"red", "blue", "green">>

\* driver_colors.get(driver, ['red', 'blue', 'green'][i]), i the 0-based row
ColorFor(driver, i) ==
    IF driver \in DOMAIN driver_colors THEN driver_colors[driver]
    ELSE FallbackColors[i + 1]

\* drivers_data[driver] = {...} for row i of results
DriverRecord(driver, i, telemetry, laptime) ==
    [driver |-> driver, telemetry |-> telemetry, color |-> ColorFor(driver, i),
     laptime |-> laptime, position |-> i + 1]

\* drivers_data[driver], a lookup by key
Lookup(dd, driver) == dd[CHOOSE k \in 1..Len(dd) : dd[k].driver = driver]

Keys(dd) == {dd[k].driver : k \in 1..Len(dd)}

(***************************************************************************)
(* calculate_sector_dominance                                              *)
(***************************************************************************)
\* faulty variant: the longest trace
min_length_mut(dd) == SetMax({len(dd[k].telemetry) : k \in 1..Len(dd)})
min_length(dd) == SetMin({len(dd[k].telemetry) : k \in 1..Len(dd)})

\* faulty variant: the quotient rounded up
sector_size_mut(minlen, n) == Max2(1, (minlen + n - 1) \div n)
sector_size(minlen, n) == Max2(1, minlen \div n)

\* faulty variant: the last sector not cut at min_length
sector_end_mut(i, size, minlen) == i + size
sector_end(i, size, minlen) == Min2(i + size, minlen)

\* Series.mean() as the exact fraction sum / cnt
Mean(s) == [sum |-> SeqSum(s), cnt |-> Len(s)]

MeanGreater(a, b) == a.sum * b.cnt > b.sum * a.cnt

\* sector_speeds: the drivers with at least one sample in [i, sector_end), in
\* insertion order, each with its mean speed
RECURSIVE SectorSpeeds(_, _, _, _)
SectorSpeeds(dd, k, i, send) ==
    IF k > Len(dd) THEN <<>>
    ELSE LET sector_tel == PySlice(dd[k].telemetry.Speed, i, send)
             rest == SectorSpeeds(dd, k + 1, i, send)
         IN  IF Len(sector_tel) > 0
             THEN <<[driver |-> dd[k].driver, avg_speed |-> Mean(sector_tel)]>> \o rest
             ELSE rest

\* max(keys, key=...): the first key whose value no later key exceeds
RECURSIVE PyMaxFrom(_, _, _)
PyMaxFrom(ss, k, best) ==
    IF k > Len(ss) THEN best
    ELSE PyMaxFrom(ss, k + 1,
                   IF MeanGreater(ss[k].avg_speed, ss[best].avg_speed) THEN k ELSE best)

\* faulty variant: the last maximal key
RECURSIVE PyMaxLastFrom(_, _, _)
PyMaxLastFrom(ss, k, best) ==
    IF k > Len(ss) THEN best
    ELSE PyMaxLastFrom(ss, k + 1,
                   IF MeanGreater(ss[best].avg_speed, ss[k].avg_speed) THEN best ELSE k)

fastest_driver_mut(ss) == ss[PyMaxLastFrom(ss, 2, 1)].driver
fastest_driver(ss) == ss[PyMaxFrom(ss, 2, 1)].driver

\* one pass of the for loop: the sector's colour and driver, repeated
SectorEntry(dd, i, send) ==
    LET ss == SectorSpeeds(dd, 1, i, send)
    IN  IF ss # <<>>
        THEN [color |-> Lookup(dd, fastest_driver(ss)).color,
              driver |-> fastest_driver(ss)]
        ELSE [color |-> "gray", driver |-> "unknown"]

\* for i in range(0, min_length, sector_size)
RECURSIVE SectorLoop(_, _, _, _, _)
SectorLoop(dd, i, size, minlen, acc) ==
    IF i >= minlen THEN acc
    ELSE LET send == sector_end(i, size, minlen)
             e == SectorEntry(dd, i, send)
         IN  SectorLoop(dd, i + size, size, minlen,
                 [sectors |-> Append(acc.sectors, <<i, send>>),
                  colors |-> acc.colors \o Repeat(e.color, send - i),
                  drivers |-> acc.drivers \o Repeat(e.driver, send - i)])

calculate_sector_dominance(dd, n) ==
    LET minlen == min_length(dd)
    IN  SectorLoop(dd, 0, sector_size(minlen, n), minlen,
                   [sectors |-> <<>>, colors |-> <<>>, drivers |-> <<>>])

\* run_animation / run_simulation, the call of calculate_sector_dominance
CalculateSectorDominance ==
    /\ pc = "run"
    /\ LET r == calculate_sector_dominance(drivers_data, num_sectors)
       IN  /\ sectors' = r.sectors
           /\ sector_colors' = r.colors
           /\ sector_dominant_drivers' = r.drivers
    /\ dominance_calls' = dominance_calls + 1
    /\ pc' = "dominance"
    /\ UNCHANGED <<inputVars, drivers_data, trackVars, deltaVars, artistVars, frame, reads>>

(***************************************************************************)
(* The state before a step of the run has happened.                        *)
(***************************************************************************)
NoDominance ==
    /\ sectors = <<>>
    /\ sector_colors = <<>>
    /\ sector_dominant_drivers = <<>>
    /\ dominance_calls = 0

NoArtists ==
    /\ track_len = 0
    /\ best_rotation = -1
    /\ reference_driver = ""
    /\ deltas = <<>>
    /\ precomputed_deltas = <<>>
    /\ car_markers = <<>>
    /\ telemetry_collections = <<>>
    /\ track_collection = [segments |-> <<>>, colors |-> <<>>]
    /\ frame = -1
    /\ reads = {}

(***************************************************************************)
(* Inputs of the dominance specification.                                  *)
(***************************************************************************)
DriverKeys == <<"VER", "HAM", "LEC">>

SeqsUpTo(S, n) == UNION {[1..k -> S] : k \in 1..n}

\* a trace with the given speeds; distance and time advance one unit a sample
TelemetryOf(speeds) ==
    [Speed |-> speeds,
     Distance |-> [j \in 1..Len(speeds) |-> j - 1],
     Time |-> [j \in 1..Len(speeds) |-> j - 1]]

Speeds == {1, 2}

\* drivers_data of n drivers over all speed traces of 1..maxlen samples
DomDriversOf(n, maxlen) ==
    {[k \in 1..n |-> DriverRecord(DriverKeys[k], k - 1, TelemetryOf(sp[k]), k)] :
        sp \in [1..n -> SeqsUpTo(Speeds, maxlen)]}

\* one or two drivers with traces up to MaxLen, three with traces up to MaxLen3
DomDriversData(maxlen, maxlen3) ==
    DomDriversOf(1, maxlen) \cup DomDriversOf(2, maxlen) \cup DomDriversOf(3, maxlen3)

\* the end-to-end scenario: three drivers with 500, 520 and 480 samples
ScenarioLens == <<500, 520, 480>>

ScenarioData(shift) ==
    [k \in 1..3 |->
        DriverRecord(DriverKeys[k], k - 1,
            TelemetryOf([j \in 1..ScenarioLens[k] |-> 200 + ((j * (k + shift)) % 7)]), k)]

DefaultSectors == 100

\* calculate_sector_dominance is the same text in both tools
InitDom ==
    /\ pc = "run"
    /\ ui = UiDone
    /\ tool = "session"
    /\ session_results = <<>>
    /\ selected_drivers = <<>>
    /\ track_raw = <<>>
    /\ \/ /\ drivers_data \in DomDriversData(MaxLen, MaxLen3)
          /\ num_sectors \in 1..MaxSectors
       \/ /\ drivers_data \in {ScenarioData(s) : s \in 0..1}
          /\ num_sectors = DefaultSectors
    /\ NoDominance
    /\ NoArtists

NextDom == CalculateSectorDominance

SpecDom == InitDom /\ [][NextDom]_vars

(***************************************************************************)
(* Claims about calculate_sector_dominance (specification SpecDom).        *)
(***************************************************************************)
\* the trace lengths of the loaded drivers
TraceLens == {Len(drivers_data[k].telemetry.Speed) : k \in 1..Len(drivers_data)}

\* minTraceLength: the least of the trace lengths
IsMinTraceLength(m) == m \in TraceLens /\ \A l \in TraceLens : m <= l

\* the sum of the speeds of driver k at source indices a .. b - 1
RECURSIVE SpeedSum(_, _, _)
SpeedSum(k, a, b) ==
    IF a >= b THEN 0
    ELSE drivers_data[k].telemetry.Speed[a + 1] + SpeedSum(k, a + 1, b)

\* C1: the two returned sequences have length minTraceLength; the sectors are
\* contiguous from 0 to minTraceLength without gap or overlap; every index
\* holds one loaded driver and that driver's colour.
ClaimC1 ==
    pc = "dominance" =>
        \E m \in TraceLens :
            /\ IsMinTraceLength(m)
            /\ Len(sector_colors) = m
            /\ Len(sector_dominant_drivers) = m
            /\ Len(sectors) >= 1
            /\ sectors[1][1] = 0
            /\ sectors[Len(sectors)][2] = m
            /\ \A s \in 1..Len(sectors) : sectors[s][1] < sectors[s][2]
            /\ \A s \in 1..(Len(sectors) - 1) : sectors[s + 1][1] = sectors[s][2]
            /\ \A i \in 1..m :
                \E k \in 1..Len(drivers_data) :
                    /\ drivers_data[k].driver = sector_dominant_drivers[i]
                    /\ drivers_data[k].color = sector_colors[i]

\* C1 witness: drivers of different trace lengths, several sectors, the last
\* one shorter than the first.
WitnessC1 ==
    /\ pc = "dominance"
    /\ Cardinality(TraceLens) = 2
    /\ Len(sectors) >= 2
    /\ sectors[Len(sectors)][2] - sectors[Len(sectors)][1] < sectors[1][2] - sectors[1][1]

\* C2: in every sector the winner's mean speed is maximal, every driver before
\* it in insertion order has a strictly lower mean, and every index of the
\* sector repeats the winner.
ClaimC2 ==
    pc = "dominance" =>
        \A s \in 1..Len(sectors) :
            LET a == sectors[s][1]
                b == sectors[s][2]
            IN  \E w \in 1..Len(drivers_data) :
                    /\ \A i \in (a + 1)..b :
                        sector_dominant_drivers[i] = drivers_data[w].driver
                    /\ \A k \in 1..Len(drivers_data) :
                        SpeedSum(k, a, b) <= SpeedSum(w, a, b)
                    /\ \A k \in 1..(w - 1) :
                        SpeedSum(k, a, b) < SpeedSum(w, a, b)

\* C2 witness: a sector of two samples where the second and third driver tie
\* for the maximum, above the first, and the second is the winner.
WitnessC2 ==
    /\ pc = "dominance"
    /\ Len(drivers_data) = 3
    /\ \E s \in 1..Len(sectors) :
        LET a == sectors[s][1]
            b == sectors[s][2]
        IN  /\ b - a = 2
            /\ SpeedSum(2, a, b) = SpeedSum(3, a, b)
            /\ SpeedSum(1, a, b) < SpeedSum(2, a, b)
            /\ sector_dominant_drivers[a + 1] = drivers_data[2].driver

\* ceil(m / size)
CeilDiv(m, size) == (m + size - 1) \div size

\* C3: the sector size is max(1, minTraceLength div num_sectors); every sector
\* but the last has that many indices, the last between 1 and that many, and
\* there are ceil(minTraceLength / size) sectors; lengths {500, 520, 480} with
\* 100 sectors give size 4, 120 sectors and 480 assignments.
ClaimC3 ==
    pc = "dominance" =>
        \E m \in TraceLens :
            LET q == m \div num_sectors
                size == IF q >= 1 THEN q ELSE 1
                n == Len(sectors)
            IN  /\ IsMinTraceLength(m)
                /\ \A s \in 1..(n - 1) : sectors[s][2] - sectors[s][1] = size
                /\ sectors[n][2] - sectors[n][1] \in 1..size
                /\ n = CeilDiv(m, size)
                /\ (TraceLens = {500, 520, 480} /\ num_sectors = 100) =>
                        /\ m = 480
                        /\ size = 4
                        /\ n = 120
                        /\ Len(sector_dominant_drivers) = 480
                        /\ Len(sector_colors) = 480

\* C3 witness: the 500 / 520 / 480 scenario after the computation.
WitnessC3 ==
    /\ pc = "dominance"
    /\ TraceLens = {500, 520, 480}
    /\ num_sectors = 100
    /\ Len(sectors) = 120

(***************************************************************************)
(* load_data.  A row of session.results carries what the provider answers   *)
(* for that driver: laps is "none" (no laps), "notime" (laps, but no        *)
(* fastest lap with a lap time) or "ok"; LapTime and telemetry are those    *)
(* of the fastest lap.                                                      *)
(***************************************************************************)
\* str.upper() on the abbreviations of the model
Upper(d) ==
    CASE d = "ver" -> "VER"
      [] d = "ham" -> "HAM"
      [] OTHER -> d

InSeq(x, s) == \E k \in 1..Len(s) : s[k] = x

\* session.results['Abbreviation'].tolist()
available_drivers(res) == [k \in 1..Len(res) |-> res[k].Abbreviation]

\* the requested abbreviations, upper-cased, that are in available_drivers
valid_drivers(sel, res) ==
    SelectSeq([k \in 1..Len(sel) |-> Upper(sel[k])],
              LAMBDA d : InSeq(d, available_drivers(res)))

\* the rows with a fastest lap that has a lap time
driver_fastest_laps(res) == SelectSeq(res, LAMBDA r : r.laps = "ok")

\* list.sort(key=laptime): stable, ascending
RECURSIVE SortByLaptime(_)
SortByLaptime(s) ==
    IF s = <<>> THEN <<>>
    ELSE LET init == SortByLaptime(SubSeq(s, 1, Len(s) - 1))
             x == s[Len(s)]
         IN  SelectSeq(init, LAMBDA r : r.LapTime <= x.LapTime) \o <<x>>
                \o SelectSeq(init, LAMBDA r : r.LapTime > x.LapTime)

\* faulty variant: the first three rows, unsorted
top_3_mut(res) == PySlice(driver_fastest_laps(res), 0, 3)
top_3(res) == PySlice(SortByLaptime(driver_fastest_laps(res)), 0, 3)

\* the explicit selection survives when at least 2 requested entries are valid
KeepsSelection(sel, res) == sel # <<>> /\ Len(valid_drivers(sel, res)) >= 2

\* results: the rows load_data goes on to load
SessionResults(sel, res) ==
    IF KeepsSelection(sel, res)
    THEN SelectSeq(res, LAMBDA r : InSeq(r.Abbreviation, valid_drivers(sel, res)))
    ELSE top_3(res)

\* session.results.head(3)
QualiResults(res) == PySlice(res, 0, 3)

\* for i, (_, result) in enumerate(results): a driver without laps, without a
\* valid fastest lap or with empty telemetry is skipped
RECURSIVE LoadRows(_, _)
LoadRows(results, i) ==
    IF i >= Len(results) THEN <<>>
    ELSE LET r == results[i + 1]
             rest == LoadRows(results, i + 1)
         IN  IF r.laps = "ok" /\ len(r.telemetry) > 0
             THEN <<DriverRecord(r.Abbreviation, i, r.telemetry, r.LapTime)>> \o rest
             ELSE rest

load_data(t, sel, res) ==
    IF t = "session" THEN LoadRows(SessionResults(sel, res), 0)
    ELSE LoadRows(QualiResults(res), 0)

\* run_animation / run_simulation: drivers_data, session = self.load_data(...)
LoadData ==
    /\ pc = "start"
    /\ drivers_data' = load_data(tool, selected_drivers, session_results)
    /\ pc' = "loaded"
    /\ UNCHANGED <<inputVars, domVars, trackVars, deltaVars, artistVars, frame, reads>>

\* if not drivers_data: print("No data available"); return None
CheckData ==
    /\ pc = "loaded"
    /\ pc' = IF drivers_data = <<>> THEN "aborted" ELSE "run"
    /\ UNCHANGED <<inputVars, drivers_data, domVars, trackVars, deltaVars, artistVars,
                   frame, reads>>

(***************************************************************************)
(* Inputs of the loading specification.                                    *)
(***************************************************************************)
MaxLapTime == 2      \* lap times of the loading inputs are 1..MaxLapTime

Abbreviations == <<"VER", "HAM", "LEC", "NOR">>

\* what the user may ask for: in the results, in lower case, or unknown
Requested == {"VER", "ham", "XXX"}

RowStates ==
    {[laps |-> "none", LapTime |-> 0, telemetry |-> TelemetryOf(<<>>)],
     [laps |-> "notime", LapTime |-> 0, telemetry |-> TelemetryOf(<<>>)]}
    \cup {[laps |-> "ok", LapTime |-> t, telemetry |-> TelemetryOf(sp)] :
            t \in 1..MaxLapTime, sp \in {<<>>, <<1>>}}

Row(abbr, st) ==
    [Abbreviation |-> abbr, laps |-> st.laps, LapTime |-> st.LapTime,
     telemetry |-> st.telemetry]

InitLoad ==
    /\ pc = "start"
    /\ ui = UiDone
    /\ tool \in {"session", "quali"}
    /\ \E st \in [1..Len(Abbreviations) -> RowStates] :
        session_results = [k \in 1..Len(Abbreviations) |-> Row(Abbreviations[k], st[k])]
    /\ IF tool = "session"
       THEN selected_drivers \in {<<>>} \cup [1..2 -> Requested] \cup [1..3 -> Requested]
       ELSE selected_drivers = <<>>
    /\ drivers_data = <<>>
    /\ num_sectors = DefaultSectors
    /\ track_raw = <<>>
    /\ NoDominance
    /\ NoArtists

NextLoad == LoadData \/ CheckData

SpecLoad == InitLoad /\ [][NextLoad]_vars

\* C4: past loading, drivers_data holds between 2 and 3 drivers.
ClaimC4 ==
    pc = "run" => Len(drivers_data) \in 2..3

\* the rows with a lap time, by ascending lap time, rows of equal lap time in
\* the order of the results
IsAscendingByLapTime(s, res) ==
    /\ \A r \in {s[k] : k \in 1..Len(s)} : InSeq(r, res) /\ r.laps = "ok"
    /\ \A r \in {res[k] : k \in 1..Len(res)} : r.laps = "ok" => InSeq(r, s)
    /\ Len(s) = Cardinality({k \in 1..Len(res) : res[k].laps = "ok"})
    /\ \A a, b \in 1..Len(s) :
        a < b => \/ s[a].LapTime < s[b].LapTime
                 \/ /\ s[a].LapTime = s[b].LapTime
                    /\ \E i, j \in 1..Len(res) : i < j /\ res[i] = s[a] /\ res[j] = s[b]

\* the number of requested entries that, upper-cased, are in the results
NumValidRequested ==
    Cardinality({k \in 1..Len(selected_drivers) :
        \E j \in 1..Len(session_results) :
            session_results[j].Abbreviation = Upper(selected_drivers[k])})

FellBack ==
    /\ tool = "session"
    /\ pc \in {"loaded", "run", "aborted"}
    /\ selected_drivers # <<>>
    /\ NumValidRequested < 2

UnknownRequestsExcluded ==
    (tool = "session" /\ pc \in {"loaded", "run", "aborted"}) =>
        \A k \in 1..Len(selected_drivers) :
            (~ \E j \in 1..Len(session_results) :
                session_results[j].Abbreviation = Upper(selected_drivers[k]))
            => /\ selected_drivers[k] \notin Keys(drivers_data)
               /\ Upper(selected_drivers[k]) \notin Keys(drivers_data)

\* C10 as stated: an unknown requested abbreviation is not loaded, and with
\* fewer than 2 valid requested entries the loaded drivers are the up-to-3
\* drivers of smallest lap time, in ascending order.
OriginalC10 ==
    /\ UnknownRequestsExcluded
    /\ FellBack =>
        \E s \in UNION {[1..n -> {session_results[k] : k \in 1..Len(session_results)}] :
                            n \in 0..Len(session_results)} :
            /\ IsAscendingByLapTime(s, session_results)
            /\ [k \in 1..Len(drivers_data) |-> drivers_data[k].driver]
                 = [k \in 1..Min2(3, Len(s)) |-> s[k].Abbreviation]

\* C10 amended: ... the loaded drivers are those of the up-to-3 drivers of
\* smallest lap time whose fastest lap has telemetry, in ascending order.
ClaimC10 ==
    /\ UnknownRequestsExcluded
    /\ FellBack =>
        \E s \in UNION {[1..n -> {session_results[k] : k \in 1..Len(session_results)}] :
                            n \in 0..Len(session_results)} :
            /\ IsAscendingByLapTime(s, session_results)
            /\ [k \in 1..Len(drivers_data) |-> drivers_data[k].driver]
                 = LET top == SubSeq(s, 1, Min2(3, Len(s)))
                       kept == SelectSeq(top, LAMBDA r : Len(r.telemetry.Speed) > 0)
                   IN  [k \in 1..Len(kept) |-> kept[k].Abbreviation]

\* C10 witness: one valid and one unknown request; four drivers have lap
\* times, the fastest three are loaded and the first row is not among them.
WitnessC10 ==
    /\ FellBack
    /\ NumValidRequested = 1
    /\ \E k \in 1..Len(selected_drivers) : selected_drivers[k] = "XXX"
    /\ Len(drivers_data) = 3
    /\ session_results[1].laps = "ok"
    /\ session_results[1].Abbreviation \notin Keys(drivers_data)

(***************************************************************************)
(* setup_plots and initialize_animation_objects.  A delta value is kept as  *)
(* the exact fraction sum / cnt (np.mean of integers); 0.0 is 0 / 1.        *)
(***************************************************************************)
\* range(0, 180, 10)
Angles == [a \in 1..18 |-> 10 * (a - 1)]

\* np.cos and np.sin of the candidate angles, in thousandths
CosTable == <<1000, 985, 940, 866, 766, 643, 500, 342, 174,
              0, -174, -342, -500, -643, -766, -866, -940, -985>>

SinTable == <<0, 174, 342, 500, 643, 766, 866, 940, 985,
              1000, 985, 940, 866, 766, 643, 500, 342, 174>>

\* track_x - np.mean(track_x) and track_y - np.mean(track_y), every value
\* multiplied by the number of points so that it stays an integer
Centered(pts) ==
    LET n == Len(pts)
        sx == SeqSum([k \in 1..n |-> pts[k][1]])
        sy == SeqSum([k \in 1..n |-> pts[k][2]])
    IN  [k \in 1..n |-> <<n * pts[k][1] - sx, n * pts[k][2] - sy>>]

\* x_rot and y_rot of lines 149-150 for candidate a
Rotated(c, a) ==
    [k \in 1..Len(c) |->
        <<c[k][1] * CosTable[a] - c[k][2] * SinTable[a],
          c[k][1] * SinTable[a] + c[k][2] * CosTable[a]>>]

\* np.max(v) - np.min(v) of coordinate i
Extent(r, i) ==
    SetMax({r[k][i] : k \in 1..Len(r)}) - SetMin({r[k][i] : k \in 1..Len(r)})

\* rot_width / (rot_height + 0.001) as the fraction num / den; in the units of
\* Rotated, 0.001 is the number of points
width_ratio(r) == [num |-> Extent(r, 1), den |-> Extent(r, 2) + Len(r)]

\* if width_ratio > best_width_ratio
RatioGreater(a, b) == a.num * b.den > b.num * a.den

\* lines 157-161: the candidates at which the loop assigns, those whose ratio
\* is greater than the initial best_width_ratio = 0 and than every ratio
\* before them
Assigning(ratios) ==
    {a \in 1..Len(ratios) :
        /\ RatioGreater(ratios[a], [num |-> 0, den |-> 1])
        /\ \A b \in 1..(a - 1) : RatioGreater(ratios[a], ratios[b])}

\* lines 146-163: the last assignment stands; bound tells whether
\* track_x_rotated was ever assigned, and return track_x_rotated,
\* track_y_rotated is an UnboundLocalError when it was not
optimize_track_layout(pts) ==
    LET c == Centered(pts)
        ratios == [a \in 1..Len(Angles) |-> width_ratio(Rotated(c, a))]
        assigned == Assigning(ratios)
    IN  IF assigned = {}
        THEN [best_rotation |-> 0, bound |-> FALSE, track_rotated |-> <<>>]
        ELSE [best_rotation |-> Angles[SetMax(assigned)], bound |-> TRUE,
              track_rotated |-> Rotated(c, SetMax(assigned))]

\* setup_plots: the track is the first driver's X and Y through
\* optimize_track_layout, or a circle of len(tel) points without the columns
SetupPlots ==
    /\ pc = "dominance"
    /\ IF track_raw # <<>>
       THEN LET layout == optimize_track_layout(track_raw)
            IN  IF layout.bound
                THEN /\ track_len' = Len(layout.track_rotated)
                     /\ best_rotation' = layout.best_rotation
                     /\ pc' = "plots"
                ELSE /\ pc' = "unbound"
                     /\ UNCHANGED trackVars
       ELSE /\ track_len' = len(drivers_data[1].telemetry)
            /\ pc' = "plots"
            /\ UNCHANGED best_rotation
    /\ UNCHANGED <<inputVars, drivers_data, domVars, deltaVars, artistVars, frame, reads>>

\* min(keys, key=laptime): the first key whose lap time no later key undercuts
RECURSIVE PyMinFrom(_, _, _)
PyMinFrom(dd, k, best) ==
    IF k > Len(dd) THEN best
    ELSE PyMinFrom(dd, k + 1, IF dd[k].laptime < dd[best].laptime THEN k ELSE best)

\* faulty variant: the last minimal key
RECURSIVE PyMinLastFrom(_, _, _)
PyMinLastFrom(dd, k, best) ==
    IF k > Len(dd) THEN best
    ELSE PyMinLastFrom(dd, k + 1, IF dd[k].laptime <= dd[best].laptime THEN k ELSE best)

ReferenceDriver_mut(dd) == dd[PyMinLastFrom(dd, 2, 1)].driver
ReferenceDriver(dd) == dd[PyMinFrom(dd, 2, 1)].driver

\* [safe_total_seconds(t - times[0]) for t in times]
\* faulty variant: session times, not measured from the first sample
Elapsed_mut(times) == times
Elapsed(times) == [j \in 1..Len(times) |-> times[j] - times[1]]

Abs(x) == IF x < 0 THEN -x ELSE x

\* np.argmin(np.abs(ref_distances - dist)): the first index (0-based) of the
\* least value
closest_idx(ref_distances, dist) ==
    SetMin({k \in 1..Len(ref_distances) :
                \A j \in 1..Len(ref_distances) :
                    Abs(ref_distances[k] - dist) <= Abs(ref_distances[j] - dist)}) - 1

\* faulty variant: np.zeros(len(ref_distances)), one delta per reference sample
RawDeltas_mut(telemetry, reference_telemetry) ==
    [j \in 1..Len(reference_telemetry.Distance) |-> 0]

\* lines 358-369: the raw deltas of a driver against the reference trace
RawDeltas(telemetry, reference_telemetry) ==
    LET distances == telemetry.Distance
        ref_distances == reference_telemetry.Distance
        ref_elapsed == Elapsed(reference_telemetry.Time)
        driver_elapsed == Elapsed(telemetry.Time)
    IN  [j \in 1..Len(distances) |->
            LET c == closest_idx(ref_distances, distances[j])
            IN  IF c < Len(ref_elapsed)
                THEN driver_elapsed[j] - ref_elapsed[c + 1]
                ELSE 0]

window_size == 15

\* lines 371-376: smoothed_deltas[j] = np.mean(deltas[start:end])
\* faulty variant: a window that ends one sample early
SmoothWindow_mut(n, j) == [start |-> Max2(0, j - window_size \div 2),
                           end |-> Min2(n, j + window_size \div 2)]
SmoothWindow(n, j) == [start |-> Max2(0, j - window_size \div 2),
                       end |-> Min2(n, j + window_size \div 2 + 1)]

Smoothed(raw) ==
    [j \in 1..Len(raw) |->
        LET w == SmoothWindow(Len(raw), j - 1)
        IN  Mean(PySlice(raw, w.start, w.end))]

\* np.zeros(len(distances))
Zeros(n) == [j \in 1..n |-> [sum |-> 0, cnt |-> 1]]

\* lines 357-380, the reference driver's branch
\* faulty variant: the reference aligned against itself like any other driver
ReferenceDeltas_mut(telemetry) == Smoothed(RawDeltas(telemetry, telemetry))
ReferenceDeltas(telemetry) == Zeros(Len(telemetry.Distance))

\* data['precomputed_deltas'] of every driver
PrecomputedDeltas(dd, ref) ==
    [d \in Keys(dd) |->
        IF d # ref
        THEN Smoothed(RawDeltas(Lookup(dd, d).telemetry, Lookup(dd, ref).telemetry))
        ELSE ReferenceDeltas(Lookup(dd, d).telemetry)]

base_zorder == 5

\* the index of a driver in enumerate(drivers_data), 0-based
EnumIndex(dd, d) == (CHOOSE k \in 1..Len(dd) : dd[k].driver = d) - 1

\* Circle((track_x[0], track_y[0]), ..., zorder=10) for every driver; center is
\* kept as the index of the track point
NewCarMarkers(dd) == [d \in Keys(dd) |-> [center |-> 0, zorder |-> 10]]

\* the plots a driver has a trace in
CollectionTypes(t) ==
    IF t = "session" THEN {"speed", "throttle", "brake", "delta"}
    ELSE {"speed", "throttle", "brake"}

\* LineCollection([], ..., zorder=base_zorder + i), one per plot
NewCollections(t, dd) ==
    [d \in Keys(dd) |->
        [zorder |-> [c \in CollectionTypes(t) |-> base_zorder + EnumIndex(dd, d)],
         segments |-> 0]]

InitializeAnimationObjects ==
    /\ pc = "plots"
    /\ IF tool = "session"
       THEN LET ref == ReferenceDriver(drivers_data)
            IN  /\ reference_driver' = ref
                /\ deltas' = [d \in Keys(drivers_data) \ {ref} |->
                                RawDeltas(Lookup(drivers_data, d).telemetry,
                                          Lookup(drivers_data, ref).telemetry)]
                /\ precomputed_deltas' = PrecomputedDeltas(drivers_data, ref)
       ELSE UNCHANGED deltaVars
    /\ car_markers' = NewCarMarkers(drivers_data)
    /\ telemetry_collections' = NewCollections(tool, drivers_data)
    /\ track_collection' = [segments |-> <<>>, colors |-> <<>>]
    /\ frame' = -1
    /\ pc' = "animating"
    /\ UNCHANGED <<inputVars, drivers_data, domVars, trackVars, reads>>

(***************************************************************************)
(* setup_plots on its own: one driver whose frame has X and Y columns of    *)
(* one to MaxPts samples on a small grid, or no such columns.               *)
(***************************************************************************)
MaxPts == 3          \* most position samples of the layout inputs

Coordinates == {0, 1}

PositionSamples(maxpts) == UNION {[1..n -> Coordinates \X Coordinates] : n \in 1..maxpts}

\* a driver of n samples, one distance unit and one time unit a sample
LayoutDriver(n) ==
    DriverRecord(DriverKeys[1], 0,
                 [Speed |-> [j \in 1..n |-> 100], Distance |-> [j \in 1..n |-> j - 1],
                  Time |-> [j \in 1..n |-> 5 + j - 1]], n)

InitLayout ==
    /\ pc = "dominance"
    /\ ui = UiDone
    /\ tool \in {"session", "quali"}
    /\ session_results = <<>>
    /\ selected_drivers = <<>>
    /\ num_sectors = DefaultSectors
    /\ \/ /\ track_raw \in PositionSamples(MaxPts)
          /\ drivers_data = <<LayoutDriver(Len(track_raw))>>
       \/ /\ track_raw = <<>>
          /\ drivers_data \in {<<LayoutDriver(n)>> : n \in 1..MaxPts}
    /\ LET r == calculate_sector_dominance(drivers_data, num_sectors)
       IN  /\ sectors = r.sectors
           /\ sector_colors = r.colors
           /\ sector_dominant_drivers = r.drivers
    /\ dominance_calls = 1
    /\ NoArtists

NextLayout == SetupPlots

SpecLayout == InitLayout /\ [][NextLayout]_vars

\* C11: with at least one position sample, optimize_track_layout returns a
\* rotated coordinate pair and never raises, also when all samples coincide.
ClaimC11 ==
    track_raw # <<>> => pc # "unbound"

(***************************************************************************)
(* Inputs of the delta specification: traces given by a length, a distance  *)
(* pattern and a time pattern.                                              *)
(***************************************************************************)
MaxLenD == 16        \* longest trace of the delta inputs

MidLenD == 9         \* a trace shorter than the smoothing window

\* distance pattern 1: one unit a sample; 2: two units a sample; 3: one unit
\* every second sample (the same distance twice)
PatternDistance(dp, i) ==
    CASE dp = 1 -> i
      [] dp = 2 -> 2 * i
      [] OTHER -> i \div 2

\* time pattern 1: one unit a sample; 2: two units a sample and one more every
\* third sample; t0 is the session time of the first sample
PatternTime(tp, t0, i) ==
    CASE tp = 1 -> t0 + i
      [] tp = 2 -> t0 + 2 * i + (i \div 3)
      [] OTHER -> t0 + (i \div 2)

PatternTelemetry(n, dp, tp, t0) ==
    [Speed |-> [j \in 1..n |-> 100 + ((j * dp) % 3)],
     Distance |-> [j \in 1..n |-> PatternDistance(dp, j - 1)],
     Time |-> [j \in 1..n |-> PatternTime(tp, t0, j - 1)]]

DeltaLens(maxlen) == {1, MidLenD, maxlen}

\* driver k of a comparison; its trace starts at session time 5 * k
DeltaDriver(k, q) ==
    DriverRecord(DriverKeys[k], k - 1, PatternTelemetry(q.n, q.dp, q.tp, 5 * k), q.laptime)

DeltaParams(maxlen) == [n : DeltaLens(maxlen), dp : 1..3, tp : 1..2, laptime : 1..2]

ThirdParams == [n : {MidLenD}, dp : 1..3, tp : {1}, laptime : 1..2]

DeltaDriversData(maxlen) ==
    {<<DeltaDriver(1, q)>> : q \in DeltaParams(maxlen)}
    \cup {<<DeltaDriver(1, q[1]), DeltaDriver(2, q[2])>> :
            q \in DeltaParams(maxlen) \X DeltaParams(maxlen)}
    \cup {<<DeltaDriver(1, q[1]), DeltaDriver(2, q[2]), DeltaDriver(3, q[3])>> :
            q \in DeltaParams(maxlen) \X DeltaParams(maxlen) \X ThirdParams}

InitDelta ==
    /\ pc = "plots"
    /\ ui = UiDone
    /\ tool = "session"
    /\ session_results = <<>>
    /\ selected_drivers = <<>>
    /\ track_raw = <<>>
    /\ num_sectors = DefaultSectors
    /\ drivers_data \in DeltaDriversData(MaxLenD)
    /\ LET r == calculate_sector_dominance(drivers_data, num_sectors)
       IN  /\ sectors = r.sectors
           /\ sector_colors = r.colors
           /\ sector_dominant_drivers = r.drivers
    /\ dominance_calls = 1
    /\ track_len = len(drivers_data[1].telemetry)
    /\ best_rotation = -1
    /\ reference_driver = ""
    /\ deltas = <<>>
    /\ precomputed_deltas = <<>>
    /\ car_markers = <<>>
    /\ telemetry_collections = <<>>
    /\ track_collection = [segments |-> <<>>, colors |-> <<>>]
    /\ frame = -1
    /\ reads = {}

NextDelta == InitializeAnimationObjects

SpecDelta == InitDelta /\ [][NextDelta]_vars

(***************************************************************************)
(* Claims about initialize_animation_objects (specification SpecDelta).    *)
(***************************************************************************)
Initialized == pc = "animating" /\ tool = "session"

\* the record of the driver with key d
DriverOf(d) == drivers_data[CHOOSE k \in 1..Len(drivers_data) : drivers_data[k].driver = d]

IsZero(v) == v.sum = 0 /\ v.cnt > 0

\* C6: the reference driver's delta curve is as long as the reference
\* driver's telemetry and is 0 at every sample.
ClaimC6 ==
    Initialized =>
        /\ reference_driver \in DOMAIN precomputed_deltas
        /\ Len(precomputed_deltas[reference_driver])
             = Len(DriverOf(reference_driver).telemetry.Distance)
        /\ \A j \in 1..Len(precomputed_deltas[reference_driver]) :
             IsZero(precomputed_deltas[reference_driver][j])

\* C6 witness: the reference is the second driver, its trace is the longest
\* of the model and holds the same distance twice.
WitnessC6 ==
    /\ Initialized
    /\ Len(drivers_data) >= 2
    /\ reference_driver = drivers_data[2].driver
    /\ Len(precomputed_deltas[reference_driver]) = MaxLenD
    /\ drivers_data[2].telemetry.Distance[1] = drivers_data[2].telemetry.Distance[2]

\* reference sample k (1-based) is the lowest one nearest to distance x
IsNearest(refDistance, k, x) ==
    /\ \A k2 \in 1..Len(refDistance) : Abs(refDistance[k] - x) <= Abs(refDistance[k2] - x)
    /\ \A k2 \in 1..(k - 1) : Abs(refDistance[k2] - x) > Abs(refDistance[k] - x)

\* the raw deltas of driver d are its elapsed time minus the elapsed time of
\* the nearest sample of driver r, each measured from the trace's first sample
RawAgainst(d, r) ==
    LET dt == DriverOf(d).telemetry
        rt == DriverOf(r).telemetry
    IN  /\ d \in DOMAIN deltas
        /\ Len(deltas[d]) = Len(dt.Distance)
        /\ \A j \in 1..Len(dt.Distance) :
            \E k \in 1..Len(rt.Distance) :
                /\ IsNearest(rt.Distance, k, dt.Distance[j])
                /\ deltas[d][j] = (dt.Time[j] - dt.Time[1]) - (rt.Time[k] - rt.Time[1])

\* C7: every non-reference driver's raw delta at sample j is its elapsed time
\* minus the reference's elapsed time at the lowest nearest sample by distance.
ClaimC7 ==
    Initialized =>
        \A d \in Keys(drivers_data) \ {reference_driver} : RawAgainst(d, reference_driver)

\* C7 witness: a driver with more samples than the reference, one of them
\* halfway between two reference samples and matched to the lower one.
WitnessC7 ==
    /\ Initialized
    /\ \E d \in Keys(drivers_data) \ {reference_driver} :
        LET dt == DriverOf(d).telemetry
            rt == DriverOf(reference_driver).telemetry
        IN  /\ Len(dt.Distance) > Len(rt.Distance)
            /\ Len(rt.Distance) > 1
            /\ \E j \in 1..Len(dt.Distance), k \in 1..(Len(rt.Distance) - 1) :
                /\ Abs(rt.Distance[k] - dt.Distance[j]) = Abs(rt.Distance[k + 1] - dt.Distance[j])
                /\ IsNearest(rt.Distance, k, dt.Distance[j])
                /\ deltas[d][j] = (dt.Time[j] - dt.Time[1]) - (rt.Time[k] - rt.Time[1])

\* the sum of the raw deltas of driver d at source indices a .. b - 1
RECURSIVE RawSum(_, _, _)
RawSum(d, a, b) == IF a >= b THEN 0 ELSE deltas[d][a + 1] + RawSum(d, a + 1, b)

\* the curve of driver d is the moving average of its raw deltas over
\* [max(0, j - 7), min(n, j + 8))
SmoothedFromRaw(d) ==
    LET n == Len(deltas[d])
    IN  /\ d \in DOMAIN precomputed_deltas
        /\ Len(precomputed_deltas[d]) = n
        /\ \A j \in 0..(n - 1) :
            LET lo == IF j - 7 > 0 THEN j - 7 ELSE 0
                hi == IF j + 8 < n THEN j + 8 ELSE n
                v == precomputed_deltas[d][j + 1]
            IN  /\ v.cnt > 0
                /\ v.sum * (hi - lo) = v.cnt * RawSum(d, lo, hi)

\* C8: smoothing keeps the length, and entry j is the mean of the raw entries
\* with indices in [max(0, j - 7), min(n, j + 8)).
ClaimC8 ==
    Initialized => \A d \in DOMAIN deltas : SmoothedFromRaw(d)

\* C8 witness: a raw curve of 16 samples that is not constant, so there are
\* full windows of 15 samples and shorter ones at both ends.
WitnessC8 ==
    /\ Initialized
    /\ \E d \in DOMAIN deltas :
        /\ Len(deltas[d]) >= 16
        /\ Cardinality({deltas[d][j] : j \in 1..Len(deltas[d])}) >= 4
        /\ precomputed_deltas[d][8].cnt = 15
        /\ precomputed_deltas[d][1].cnt = 8
        /\ precomputed_deltas[d][16].cnt = 8

\* C9: the reference driver has the least lap time, the first such driver in
\* insertion order; it gets the zero curve and every other driver a curve
\* computed against it.
ClaimC9 ==
    Initialized =>
        \E r \in 1..Len(drivers_data) :
            /\ reference_driver = drivers_data[r].driver
            /\ \A k \in 1..Len(drivers_data) : drivers_data[r].laptime <= drivers_data[k].laptime
            /\ \A k \in 1..(r - 1) : drivers_data[r].laptime < drivers_data[k].laptime
            /\ DOMAIN precomputed_deltas = Keys(drivers_data)
            /\ DOMAIN deltas = Keys(drivers_data) \ {reference_driver}
            /\ \A j \in 1..Len(precomputed_deltas[reference_driver]) :
                 IsZero(precomputed_deltas[reference_driver][j])
            /\ \A d \in Keys(drivers_data) \ {reference_driver} :
                 RawAgainst(d, reference_driver) /\ SmoothedFromRaw(d)

\* C9 witness: three drivers, the second and third tie for the least lap time,
\* the second is the reference and the first has a curve that is not zero.
WitnessC9 ==
    /\ Initialized
    /\ Len(drivers_data) = 3
    /\ drivers_data[2].laptime = drivers_data[3].laptime
    /\ drivers_data[2].laptime < drivers_data[1].laptime
    /\ reference_driver = drivers_data[2].driver
    /\ \E j \in 1..Len(precomputed_deltas[drivers_data[1].driver]) :
         ~ IsZero(precomputed_deltas[drivers_data[1].driver][j])

(***************************************************************************)
(* Double-precision arithmetic of the frame computations.  animate_frame     *)
(* evaluates (x / d) * t in floats: the quotient is rounded to 53            *)
(* significant bits, and so is the product.  For integers x, d, t the sign   *)
(* of the rounded result minus the exact value x * t / d is computed here    *)
(* from remainders, for the case that matters: an exact value with few bits  *)
(* (an integer or a half-integer), where the rounded result can fall on the  *)
(* other side of a comparison or of int().                                   *)
(***************************************************************************)
RECURSIVE Pow2(_)
Pow2(e) == IF e = 0 THEN 1 ELSE 2 * Pow2(e - 1)

RECURSIVE Log2Up(_, _, _)
Log2Up(x, d, e) == IF d * Pow2(e + 1) <= x THEN Log2Up(x, d, e + 1) ELSE e

RECURSIVE Log2Down(_, _, _)
Log2Down(x, d, j) == IF x * Pow2(j) < d THEN Log2Down(x, d, j + 1) ELSE -j

\* the binary exponent of x / d: the largest e with 2^e <= x / d, for x, d > 0
Log2Floor(x, d) == IF x >= d THEN Log2Up(x, d, 0) ELSE Log2Down(x, d, 1)

\* 2^k mod d, by squaring
RECURSIVE PowMod(_, _)
PowMod(k, d) ==
    IF k = 0 THEN 1 % d
    ELSE IF k % 2 = 0 THEN LET h == PowMod(k \div 2, d) IN (h * h) % d
    ELSE (2 * PowMod(k - 1, d)) % d

\* lhs > rhs * 2^e, for any integer e
GreaterScaled(lhs, rhs, e) ==
    IF e >= 0 THEN lhs > rhs * Pow2(e) ELSE lhs * Pow2(-e) > rhs

\* n / dn is a power of two
IsPow2(n, dn) ==
    LET e == Log2Floor(n, dn)
    IN  IF e >= 0 THEN n = dn * Pow2(e) ELSE n * Pow2(-e) = dn

\* the sign of float(float(x / d) * t) - x * t / d, for an exact value
\* x * t / d that is an integer or a half-integer.  The quotient's mantissa is
\* x * 2^k / d rounded to nearest, k = 52 - exponent, so its error is
\* -r / (d * 2^k) or (d - r) / (d * 2^k) with r = x * 2^k mod d; the product
\* rounds back to the exact value unless the error times t exceeds half the
\* spacing of the doubles on that side of the exact value.
FloatSign(x, d, t) ==
    IF x = 0 \/ t = 0 THEN 0
    ELSE LET ea == Log2Floor(x, d)
             r == (x * PowMod(52 - ea, d)) % d
             eC == Log2Floor(x * t, d)
         IN  IF r = 0 THEN 0
             ELSE IF 2 * r < d
             THEN LET eb == IF IsPow2(x * t, d) THEN eC - 1 ELSE eC
                  IN  IF GreaterScaled(2 * r * t, d, eb - ea) THEN -1 ELSE 0
             ELSE IF GreaterScaled(2 * (d - r) * t, d, eC - ea) THEN 1 ELSE 0

\* int((x / d) * t) for x, t >= 0 and d > 0: the floor of the exact value, or one
\* less when the exact value is an integer and the doubles fall short of it
IntMulDiv(x, d, t) ==
    LET q == (x * t) \div d
    IN  IF (x * t) % d = 0 /\ FloatSign(x, d, t) < 0 THEN q - 1 ELSE q

(***************************************************************************)
(* animate_frame.  An indexed read is recorded as [arr, n, idx]: index idx  *)
(* of a sequence of n elements; Python raises IndexError unless             *)
(* -n <= idx < n.  Slices never raise.                                      *)
(***************************************************************************)
\* FuncAnimation(..., frames=min_length, repeat=True)
NumFrames(dd) == min_length(dd)

Read(arr, n, idx) == [arr |-> arr, n |-> n, idx |-> idx]

InRange(r) == -r.n <= r.idx /\ r.idx < r.n

\* frame > 10 in the session tool, frame > 1 in the single-lap tool
PastThreshold(t, f) == IF t = "session" THEN f > 10 ELSE f > 1

\* max([safe_total_seconds(d['laptime']) ...])
\* faulty variant: the fastest lap
max_lap_time_mut(dd) == SetMin({dd[k].laptime : k \in 1..Len(dd)})
max_lap_time(dd) == SetMax({dd[k].laptime : k \in 1..Len(dd)})

\* session lines 397-400: the clock frame * (max_lap_time / min_telemetry_length)
\* as the exact fraction num / den and the side sgn on which the double lies
current_elapsed_time(dd, f) ==
    LET den == min_length(dd)
        num == f * max_lap_time(dd)
    IN  [num |-> num, den |-> den,
         sgn |-> IF (2 * num) % den = 0 THEN FloatSign(max_lap_time(dd), den, f) ELSE 0]

\* current_elapsed_time <= e, for an elapsed time e
ClockAtMost(c, e) == c.num < e * c.den \/ (c.num = e * c.den /\ c.sgn <= 0)

\* np.abs(a - current_elapsed_time) < np.abs(b - current_elapsed_time): of two
\* elapsed times as far from the exact clock, the one on the double's side
Closer(c, a, b) ==
    LET da == Abs(a * c.den - c.num)
        db == Abs(b * c.den - c.num)
    IN  \/ da < db
        \/ da = db /\ ((c.sgn > 0 /\ a > b) \/ (c.sgn < 0 /\ a < b))

\* np.argmin(np.abs(elapsed_times - current_elapsed_time)), 0-based: the first
\* index of the least value
TimeArgMin(elapsed_times, c) ==
    SetMin({k \in 1..Len(elapsed_times) :
                \A j \in 1..Len(elapsed_times) :
                    ~ Closer(c, elapsed_times[j], elapsed_times[k])}) - 1

\* faulty variant: past the last elapsed time the first sample
time_idx_mut(dd, k, f) ==
    LET telemetry == dd[k].telemetry
        c == current_elapsed_time(dd, f)
        elapsed_times == Elapsed(telemetry.Time)
    IN  IF ClockAtMost(c, elapsed_times[Len(elapsed_times)])
        THEN Min2(TimeArgMin(elapsed_times, c), len(telemetry) - 1)
        ELSE 0

\* session lines 413-420
time_idx(dd, k, f) ==
    LET telemetry == dd[k].telemetry
        c == current_elapsed_time(dd, f)
        elapsed_times == Elapsed(telemetry.Time)
    IN  IF ClockAtMost(c, elapsed_times[Len(elapsed_times)])
        THEN Min2(TimeArgMin(elapsed_times, c), len(telemetry) - 1)
        ELSE len(telemetry) - 1

\* session lines 422-423 and single-lap lines 312-313
track_idx(t, dd, k, f, tl) ==
    LET n == len(dd[k].telemetry)
    IN  IF t = "session"
        THEN IF n > 1 THEN Min2(IntMulDiv(time_idx(dd, k, f), n - 1, tl - 1), tl - 1)
             ELSE Min2(0, tl - 1)
        ELSE Min2(IntMulDiv(f, n, tl - 1), tl - 1)

\* whether the car loop moves driver k in this frame
\* faulty variant: a driver past its trace is moved all the same
MovesCar_mut(t, dd, k, f) == len(dd[k].telemetry) # 0
MovesCar(t, dd, k, f) ==
    IF t = "session" THEN len(dd[k].telemetry) # 0 ELSE f < len(dd[k].telemetry)

CarReads(t, dd, f, tl) ==
    UNION {
        IF ~ MovesCar(t, dd, k, f) THEN {}
        ELSE {Read("track_x", tl, track_idx(t, dd, k, f, tl))}
             \cup (IF t = "session"
                   THEN {Read("Time", len(dd[k].telemetry), 0),
                         Read("elapsed_times", len(dd[k].telemetry), -1)}
                   ELSE {})
        : k \in 1..Len(dd)}

\* range(min(frame - 1, len(track_x) - 1))
\* faulty variant: range(min(frame, len(track_x) - 1))
TrackRange_mut(f, tl) == Min2(f, tl - 1)
TrackRange(f, tl) == Min2(f - 1, tl - 1)

\* the start points i of the track segments: if i < len(sector_colors)
TrackSegments(f, tl, sc) ==
    SelectSeq([j \in 1..TrackRange(f, tl) |-> j - 1], LAMBDA i : i < Len(sc))

TrackReads(f, tl, sc) ==
    UNION {{Read("track_x", tl, i), Read("track_x", tl, i + 1),
            Read("sector_colors", Len(sc), i)} :
                i \in {j \in 0..(TrackRange(f, tl) - 1) : j < Len(sc)}}

\* sector_dominant_drivers[frame], under if frame < len(...)
DominantReads(f, sdd) ==
    IF f < Len(sdd) THEN {Read("sector_dominant_drivers", Len(sdd), f)} ELSE {}

\* sector_dominant_drivers[min(frame-1, len(sector_dominant_drivers)-1)]
current_dominant_idx(f, sdd) == Min2(f - 1, Len(sdd) - 1)

\* session lines 461-464
current_frame(n, f) == IF f >= n THEN n - 1 ELSE f

\* the number of samples of driver k the trace loop draws, 0 when it leaves
\* the driver's collections alone
DrawnSamples(t, dd, k, f) ==
    LET n == len(dd[k].telemetry)
    IN  IF t = "session"
        THEN IF current_frame(n, f) > 10
             THEN Len(PySlice(dd[k].telemetry.Distance, 0, current_frame(n, f) + 1))
             ELSE 0
        ELSE IF Len(PySlice(dd[k].telemetry.Distance, 0, f + 1)) > 1
             THEN Len(PySlice(dd[k].telemetry.Distance, 0, f + 1))
             ELSE 0

\* for i in range(len(distances) - 1)
\* faulty variant: range(len(distances))
SegmentCount_mut(n) == n
SegmentCount(n) == n - 1

\* the reads of [[distances[i], ...[i]], [distances[i+1], ...[i+1]]]
TraceReads(t, dd, pd, f) ==
    UNION {
        LET m == DrawnSamples(t, dd, k, f)
            d == dd[k].driver
        IN  IF m = 0 THEN {}
            ELSE UNION {
                    {Read("distances", m, i), Read("distances", m, i + 1)}
                    \cup (IF t = "session"
                          THEN LET dn == Len(PySlice(pd[d], 0, current_frame(len(dd[k].telemetry), f) + 1))
                               IN  {Read("deltas", dn, i), Read("deltas", dn, i + 1)}
                          ELSE {})
                    : i \in 0..(SegmentCount(m) - 1)}
        : k \in 1..Len(dd)}

\* every indexed read of animate_frame(frame)
FrameReads(t, dd, pd, f, tl, sc, sdd) ==
    CarReads(t, dd, f, tl) \cup DominantReads(f, sdd)
    \cup (IF PastThreshold(t, f)
          THEN TrackReads(f, tl, sc)
               \cup {Read("sector_dominant_drivers", Len(sdd), current_dominant_idx(f, sdd))}
               \cup TraceReads(t, dd, pd, f)
          ELSE {})

\* session lines 430-437: every marker to 10, then the dominant driver's to 15
\* faulty variant: the other markers are not set back to 10
car_zorder_mut(f, sdd, d, old) ==
    IF f < Len(sdd) /\ sdd[f + 1] = d THEN 15 ELSE old
car_zorder(f, sdd, d, old) ==
    IF f < Len(sdd)
    THEN IF sdd[f + 1] = d THEN 15 ELSE 10
    ELSE old

\* the car markers after the car loop and the z-order block
MovedCars(t, dd, f, tl, sdd, cm) ==
    [d \in DOMAIN cm |->
        LET k == EnumIndex(dd, d) + 1
        IN  [center |-> IF MovesCar(t, dd, k, f) THEN track_idx(t, dd, k, f, tl)
                        ELSE cm[d].center,
             zorder |-> car_zorder(f, sdd, d, cm[d].zorder)]]

\* the z-order with the brake trace left out of the second loop
trace_zorder_mut(f, sdd, d, i, c) ==
    IF sdd[current_dominant_idx(f, sdd) + 1] = d /\ c # "brake"
    THEN base_zorder + 10
    ELSE base_zorder + i

\* the z-order of the collection of type c of driver d, at enumeration index
\* i, after the two set_zorder loops
trace_zorder(f, sdd, d, i, c) ==
    IF sdd[current_dominant_idx(f, sdd) + 1] = d
    THEN base_zorder + 10
    ELSE base_zorder + i

\* the collections of every driver after the trace block
DrawnCollections(t, dd, f, sdd, tc) ==
    IF ~ PastThreshold(t, f) THEN tc
    ELSE [d \in DOMAIN tc |->
            LET k == EnumIndex(dd, d) + 1
                m == DrawnSamples(t, dd, k, f)
            IN  [zorder |-> [c \in DOMAIN tc[d].zorder |->
                                trace_zorder(f, sdd, d, k - 1, c)],
                 segments |-> IF m = 0 THEN tc[d].segments ELSE SegmentCount(m)]]

\* the track dominance trace after the frame; a segment is kept as the pair of
\* the indices of the track points it joins
DrawnTrack(t, f, tl, sc, old) ==
    IF PastThreshold(t, f)
    THEN LET segs == TrackSegments(f, tl, sc)
         IN  [segments |-> [j \in 1..Len(segs) |-> <<segs[j], segs[j] + 1>>],
              colors |-> [j \in 1..Len(segs) |-> sc[segs[j] + 1]]]
    ELSE IF t = "session" THEN [segments |-> <<>>, colors |-> <<>>]
         ELSE old

\* `if dominant_driver in car_markers`, `if current_dominant in
\* telemetry_collections`: the dominant driver's artists are looked up only
\* for a key of the dictionary
looks_up(d, keys) == d \in keys

\* the keys a call looks up in car_markers and telemetry_collections for the
\* dominant driver
DominantLookups(t, f, sdd, keys) ==
    (IF f < Len(sdd) /\ looks_up(sdd[f + 1], keys) THEN {sdd[f + 1]} ELSE {})
    \cup (IF /\ PastThreshold(t, f)
              /\ Len(sdd) > 0
              /\ looks_up(sdd[current_dominant_idx(f, sdd) + 1], keys)
           THEN {sdd[current_dominant_idx(f, sdd) + 1]}
           ELSE {})

\* what a call reads and draws: IndexError on a read out of range, KeyError
\* on a lookup of a key a dictionary does not hold, else the artists moved
\* and redrawn
DrawFrame(f) ==
    LET rd == FrameReads(tool, drivers_data, precomputed_deltas, f, track_len,
                         sector_colors, sector_dominant_drivers)
        lk == DominantLookups(tool, f, sector_dominant_drivers, DOMAIN car_markers)
    IN  /\ frame' = f
        /\ reads' = rd
        /\ IF (\E r \in rd : ~ InRange(r)) \/ (\E d \in lk : d \notin DOMAIN car_markers)
           THEN /\ pc' = "error"
                /\ UNCHANGED artistVars
           ELSE /\ pc' = "animating"
                /\ car_markers' = MovedCars(tool, drivers_data, f, track_len,
                                            sector_dominant_drivers, car_markers)
                /\ telemetry_collections' =
                     DrawnCollections(tool, drivers_data, f, sector_dominant_drivers,
                                      telemetry_collections)
                /\ track_collection' = DrawnTrack(tool, f, track_len, sector_colors,
                                                  track_collection)

\* animate_frame with the dominance computed again in every call
animate_frame_mut(f) ==
    /\ pc = "animating"
    /\ DrawFrame(f)
    /\ LET r == calculate_sector_dominance(drivers_data, num_sectors)
       IN  /\ sectors' = r.sectors
           /\ sector_colors' = r.colors
           /\ sector_dominant_drivers' = r.drivers
    /\ dominance_calls' = dominance_calls + 1
    /\ UNCHANGED <<inputVars, drivers_data, trackVars, deltaVars>>

\* animate_frame(frame, ...): one call
animate_frame(f) ==
    /\ pc = "animating"
    /\ DrawFrame(f)
    /\ UNCHANGED <<inputVars, drivers_data, domVars, trackVars, deltaVars>>

\* one call of animate_frame by FuncAnimation, with the next frame of
\* range(min_length), starting over after the last
AnimateFrame == animate_frame((frame + 1) % NumFrames(drivers_data))

\* a call of animate_frame with any frame up to the longest trace length
CallAnimateFrame ==
    \E f \in 0..SetMax({len(drivers_data[k].telemetry) : k \in 1..Len(drivers_data)}) :
        animate_frame(f)

(***************************************************************************)
(* The run from the loaded data on: both tools, one to three drivers.      *)
(***************************************************************************)
MaxLenA == 13        \* longest trace of the animation inputs

\* a lap time just above the elapsed time of the last sample
AnimDriver(k, q) ==
    DriverRecord(DriverKeys[k], k - 1, PatternTelemetry(q.n, q.dp, q.tp, 5 * k),
                 PatternTime(q.tp, 0, q.n - 1) + 1)

AnimParams(maxlen) == [n : {1, 2, maxlen - 1, maxlen}, dp : 1..3, tp : 1..2]

AnimThirdParams(maxlen) == [n : {maxlen}, dp : 1..2, tp : {1}]

AnimDriversData(maxlen) ==
    {<<AnimDriver(1, q)>> : q \in AnimParams(maxlen)}
    \cup {<<AnimDriver(1, q[1]), AnimDriver(2, q[2])>> :
            q \in AnimParams(maxlen) \X AnimParams(maxlen)}
    \cup {<<AnimDriver(1, q[1]), AnimDriver(2, q[2]), AnimDriver(3, q[3])>> :
            q \in AnimParams(maxlen) \X AnimParams(maxlen) \X AnimThirdParams(maxlen)}

\* position samples going round the corners of a unit square
SquareLap(n) == [k \in 1..n |-> <<k % 2, (k \div 2) % 2>>]

LongLen == 23        \* the trace length of the long laps

\* laps of LongLen samples: one driver, or two with one of them a sample short
LongDriversData(n) ==
    {<<AnimDriver(1, [n |-> n, dp |-> 1, tp |-> 1])>>,
     <<AnimDriver(1, [n |-> n, dp |-> 1, tp |-> 1]),
       AnimDriver(2, [n |-> n - 1, dp |-> 2, tp |-> 1])>>,
     <<AnimDriver(1, [n |-> n - 1, dp |-> 1, tp |-> 1]),
       AnimDriver(2, [n |-> n, dp |-> 2, tp |-> 1])>>}

Init ==
    /\ pc = "run"
    /\ ui = UiDone
    /\ tool \in {"session", "quali"}
    /\ session_results = <<>>
    /\ selected_drivers = <<>>
    /\ num_sectors = DefaultSectors
    /\ drivers_data \in AnimDriversData(MaxLenA) \cup LongDriversData(LongLen)
    /\ track_raw = SquareLap(len(drivers_data[1].telemetry))
    /\ NoDominance
    /\ NoArtists

Next ==
    \/ CalculateSectorDominance
    \/ SetupPlots
    \/ InitializeAnimationObjects
    \/ AnimateFrame

Spec == Init /\ [][Next]_vars

\* C5: no call of animate_frame with a frame of [0, minTraceLength) reads
\* outside a sequence, whatever the trace lengths.
ClaimC5 ==
    /\ pc # "error"
    /\ \A r \in reads : -r.n <= r.idx /\ r.idx <= r.n - 1

\* C5 witness: the session tool has drawn the last frame, above the
\* truncation threshold, with a trace longer than the shortest one, and has
\* read the last sample it may read of the shortest trace.
WitnessC5 ==
    /\ pc = "animating"
    /\ tool = "session"
    /\ \E m \in TraceLens :
        /\ IsMinTraceLength(m)
        /\ frame = m - 1
        /\ frame > 10
        /\ \E l \in TraceLens : l > m
        /\ \E r \in reads : r.arr = "distances" /\ r.idx = m - 1

\* a frame has been drawn and the run goes on
Drawn == pc = "animating" /\ frame >= 0

EmptyTrack == [segments |-> <<>>, colors |-> <<>>]

\* C12: after every animate_frame(f), in any sequence of calls and across a
\* replay wrap, the track trace and every driver's collections hold exactly
\* the segments that animate_frame(f) puts into freshly made collections: no
\* segment of an earlier frame survives at or below the truncation threshold.
ClaimC12 ==
    Drawn =>
        /\ track_collection.segments =
                DrawnTrack(tool, frame, track_len, sector_colors, EmptyTrack).segments
        /\ \A d \in Keys(drivers_data) :
                telemetry_collections[d].segments =
                    DrawnCollections(tool, drivers_data, frame, sector_dominant_drivers,
                                     NewCollections(tool, drivers_data))[d].segments

\* C13: after every animate_frame(f), in both tools, the car marker of
\* sector_dominant_drivers[f] has z-order 15 and every other car marker has
\* z-order 10; no two car markers have z-order 15.
ClaimC13 ==
    Drawn =>
        /\ \A d \in Keys(drivers_data) :
                car_markers[d].zorder =
                    IF d = sector_dominant_drivers[frame + 1] THEN 15 ELSE 10
        /\ Cardinality({d \in Keys(drivers_data) : car_markers[d].zorder = 15}) <= 1

\* C13 witness: in the single-lap tool, with three drivers, the frame just
\* drawn has another dominant driver than the frame before it, whose marker
\* is the one at 15.
WitnessC13 ==
    /\ Drawn
    /\ tool = "quali"
    /\ Len(drivers_data) = 3
    /\ frame >= 1
    /\ sector_dominant_drivers[frame + 1] # sector_dominant_drivers[frame]
    /\ car_markers[sector_dominant_drivers[frame + 1]].zorder = 15
    /\ car_markers[sector_dominant_drivers[frame]].zorder = 10

\* the drivers whose car marker is raised, and whose traces are raised
ElevatedCars == {d \in Keys(drivers_data) : car_markers[d].zorder = 15}

ElevatedTraces ==
    {d \in Keys(drivers_data) :
        \A c \in DOMAIN telemetry_collections[d].zorder :
            telemetry_collections[d].zorder[c] = base_zorder + 10}

\* C14: after every animate_frame(f) with f above the truncation threshold,
\* the driver whose car marker is elevated and the driver whose traces are
\* elevated are the same driver, the sector-dominant driver of frame f, also
\* at the first index of a sector whose winner differs from the previous one.
ClaimC14 ==
    (Drawn /\ PastThreshold(tool, frame)) =>
        /\ ElevatedCars = {sector_dominant_drivers[frame + 1]}
        /\ ElevatedTraces = {sector_dominant_drivers[frame + 1]}

(***************************************************************************)
(* The car positions.  The shared clock of frame f is stated from the lap   *)
(* times and trace lengths directly: f * (slowest lap) / (shortest trace).  *)
(***************************************************************************)
SlowestLap ==
    CHOOSE l \in {drivers_data[k].laptime : k \in 1..Len(drivers_data)} :
        \A k \in 1..Len(drivers_data) : drivers_data[k].laptime <= l

ShortestTrace == CHOOSE m \in TraceLens : IsMinTraceLength(m)

\* the clock as the exact value num / den
ExactClock(f) == [num |-> f * SlowestLap, den |-> ShortestTrace, sgn |-> 0]

\* the clock as the double that frame * (max_lap_time / min_length) yields
DoubleClock(f) ==
    [num |-> f * SlowestLap, den |-> ShortestTrace,
     sgn |-> IF (2 * f * SlowestLap) % ShortestTrace = 0
             THEN FloatSign(SlowestLap, ShortestTrace, f) ELSE 0]

ElapsedOf(k) ==
    [j \in 1..len(drivers_data[k].telemetry) |->
        drivers_data[k].telemetry.Time[j] - drivers_data[k].telemetry.Time[1]]

\* j (0-based) is the lowest index minimising |elapsed[j] - c| of driver k
IsLowestNearest(k, c, j) ==
    LET e == ElapsedOf(k)
    IN  /\ j \in 0..(Len(e) - 1)
        /\ \A i \in 1..Len(e) : ~ Closer(c, e[i], e[j + 1])
        /\ \A i \in 1..j : Closer(c, e[j + 1], e[i])

\* the sample index of driver k under clock c: the lowest nearest index while
\* c is at most the last elapsed time, the last index after that
LocatedIndex(k, c) ==
    LET e == ElapsedOf(k)
    IN  IF ClockAtMost(c, e[Len(e)])
        THEN CHOOSE j \in 0..(Len(e) - 1) : IsLowestNearest(k, c, j)
        ELSE Len(e) - 1

\* min(floor(idx / (len-1) * (trackLen-1)), trackLen-1), 0 when len = 1
ExactTrackIndex(idx, n) ==
    IF n = 1 THEN 0
    ELSE Min2((idx * (track_len - 1)) \div (n - 1), track_len - 1)

\* the same with idx / (len-1) * (trackLen-1) evaluated in doubles
DoubleTrackIndex(idx, n) ==
    IF n = 1 THEN 0
    ELSE Min2(IntMulDiv(idx, n - 1, track_len - 1), track_len - 1)

DrawnSession == Drawn /\ tool = "session"

\* C15 as stated, in exact arithmetic: at frame f the clock is
\* c = f * (maximum lap time) / minTraceLength, each driver's sample index is
\* the lowest index minimising |elapsed[k] - c| when c <= the last elapsed
\* time and len-1 otherwise, and the car's track index is
\* min(floor(idx / (len-1) * (trackLen-1)), trackLen-1), 0 when len = 1.
OriginalC15 ==
    DrawnSession =>
        \A k \in 1..Len(drivers_data) :
            car_markers[drivers_data[k].driver].center =
                ExactTrackIndex(LocatedIndex(k, ExactClock(frame)),
                                len(drivers_data[k].telemetry))

\* C15, amended: the same with the clock and the track index as the doubles
\* the session tool computes: the nearest sample is taken against the double
\* frame * (max lap time / minTraceLength), and the track index is
\* int(idx / (len-1) * (trackLen-1)) in doubles, one less than the floor when
\* the exact value is an integer that the doubles fall short of.
ClaimC15 ==
    DrawnSession =>
        \A k \in 1..Len(drivers_data) :
            car_markers[drivers_data[k].driver].center =
                DoubleTrackIndex(LocatedIndex(k, DoubleClock(frame)),
                                 len(drivers_data[k].telemetry))

\* C15 witness: the session tool has drawn a frame with two drivers, one held
\* at its last sample because the clock has passed its last elapsed time,
\* the other located by the nearest elapsed time before its last sample.
WitnessC15 ==
    /\ DrawnSession
    /\ Len(drivers_data) >= 2
    /\ \E k, h \in 1..Len(drivers_data) :
        /\ ~ ClockAtMost(DoubleClock(frame), ElapsedOf(k)[Len(ElapsedOf(k))])
        /\ len(drivers_data[k].telemetry) > 1
        /\ car_markers[drivers_data[k].driver].center =
                DoubleTrackIndex(len(drivers_data[k].telemetry) - 1,
                                 len(drivers_data[k].telemetry))
        /\ ClockAtMost(DoubleClock(frame), ElapsedOf(h)[Len(ElapsedOf(h))])
        /\ LocatedIndex(h, DoubleClock(frame)) \in 1..(len(drivers_data[h].telemetry) - 2)

(***************************************************************************)
(* animate_frame called with any frame, also one at or past the end of a    *)
(* driver's trace: short laps of one to MaxLenCall samples and the long     *)
(* laps.                                                                    *)
(***************************************************************************)
MaxLenCall == 3      \* longest trace of the short laps

CallDriversData(maxlen) ==
    {<<AnimDriver(1, [n |-> n1, dp |-> 1, tp |-> 1]),
       AnimDriver(2, [n |-> n2, dp |-> 2, tp |-> tp2])>> :
        n1 \in 2..maxlen, n2 \in 1..maxlen, tp2 \in 1..2}

InitCall ==
    /\ pc = "run"
    /\ ui = UiDone
    /\ tool \in {"session", "quali"}
    /\ session_results = <<>>
    /\ selected_drivers = <<>>
    /\ num_sectors = DefaultSectors
    /\ drivers_data \in CallDriversData(MaxLenCall) \cup LongDriversData(LongLen)
    /\ track_raw = SquareLap(len(drivers_data[1].telemetry))
    /\ NoDominance
    /\ NoArtists

NextCall ==
    \/ CalculateSectorDominance
    \/ SetupPlots
    \/ InitializeAnimationObjects
    \/ CallAnimateFrame

SpecCall == InitCall /\ [][NextCall]_vars

\* min(floor(f / len * (trackLen-1)), trackLen-1)
ExactScaledFrame(f, n) == Min2((f * (track_len - 1)) \div n, track_len - 1)

\* the same with f / len * (trackLen-1) evaluated in doubles
DoubleScaledFrame(f, n) == Min2(IntMulDiv(f, n, track_len - 1), track_len - 1)

\* a call of animate_frame of the single-lap tool that returns
QualiCall == pc = "animating" /\ tool = "quali" /\ pc' = "animating"

\* C16 as stated, in exact arithmetic: in the single-lap tool, a call with
\* frame f places the car of each driver with f < len(telemetry) at track index
\* min(floor(f / len(telemetry) * (trackLen-1)), trackLen-1) and leaves the
\* marker of a driver with f >= len(telemetry) where it was.
OriginalC16 ==
    [][QualiCall =>
        \A k \in 1..Len(drivers_data) :
            LET d == drivers_data[k].driver
                n == len(drivers_data[k].telemetry)
            IN  car_markers'[d].center =
                    IF frame' < n THEN ExactScaledFrame(frame', n)
                    ELSE car_markers[d].center]_vars

\* C16, amended: the same with the track index as the single-lap tool
\* computes it, int(f / len * (trackLen-1)) in doubles: one less than the floor
\* when the exact value is an integer that the doubles fall short of.
ClaimC16 ==
    [][QualiCall =>
        \A k \in 1..Len(drivers_data) :
            LET d == drivers_data[k].driver
                n == len(drivers_data[k].telemetry)
            IN  car_markers'[d].center =
                    IF frame' < n THEN DoubleScaledFrame(frame', n)
                    ELSE car_markers[d].center]_vars

\* C16 witness: the single-lap tool has returned from a call whose frame is
\* inside the first driver's trace and past the end of the second driver's,
\* whose marker is still at a track point an earlier call gave it, not the one
\* the scaling of this frame would give.
WitnessC16 ==
    /\ Drawn
    /\ tool = "quali"
    /\ Len(drivers_data) = 2
    /\ frame < len(drivers_data[1].telemetry)
    /\ frame >= len(drivers_data[2].telemetry)
    /\ car_markers[drivers_data[1].driver].center =
            DoubleScaledFrame(frame, len(drivers_data[1].telemetry))
    /\ car_markers[drivers_data[2].driver].center > 0
    /\ car_markers[drivers_data[2].driver].center #
            DoubleScaledFrame(frame, len(drivers_data[2].telemetry))

\* frame > 10 in the session tool, frame > 1 in the single-lap tool
AboveThreshold(f) == (tool = "session" /\ f > 10) \/ (tool = "quali" /\ f > 1)

\* min(frame-1, trackLen-1, len(sector_colors))
EmittedCount(f) == Min2(Min2(f - 1, track_len - 1), Len(sector_colors))

\* a call of animate_frame that returns
ReturningCall == pc = "animating" /\ pc' = "animating"

\* C17: a call of animate_frame emits track dominance segments only when
\* frame > 10 (session tool) or frame > 1 (single-lap tool); it then emits
\* exactly min(frame-1, trackLen-1, len(sector_colors)) segments, segment i
\* joining track points i and i+1 and coloured sector_colors[i], with as many
\* colours as segments; at or below the threshold the session tool sets the
\* track trace to empty and the single-lap tool leaves it as it was.
ClaimC17 ==
    [][ReturningCall =>
        IF AboveThreshold(frame')
        THEN /\ Len(track_collection'.segments) = EmittedCount(frame')
             /\ Len(track_collection'.colors) = Len(track_collection'.segments)
             /\ \A i \in 0..(EmittedCount(frame') - 1) :
                    /\ track_collection'.segments[i + 1] = <<i, i + 1>>
                    /\ track_collection'.colors[i + 1] = sector_colors[i + 1]
        ELSE IF tool = "session"
             THEN track_collection' = EmptyTrack
             ELSE track_collection' = track_collection]_vars

\* C17 witness: the session tool has returned from a call with frame > 10
\* whose segments stop at the end of the track, before frame - 1.
WitnessC17 ==
    /\ DrawnSession
    /\ frame > 10
    /\ track_len - 1 < frame - 1
    /\ Len(track_collection.segments) = track_len - 1
    /\ track_collection.segments[track_len - 1] = <<track_len - 2, track_len - 1>>

(***************************************************************************)
(* get_user_input on its own: every prompt answered with any of the texts  *)
(* above.  input() blocks until a line is typed, so a run goes on as long  *)
(* as a prompt is open: the user keeps answering.                          *)
(***************************************************************************)
InitInput ==
    /\ pc = "input"
    /\ ui = UiStart
    /\ tool = "session"
    /\ session_results = <<>>
    /\ selected_drivers = <<>>
    /\ drivers_data = <<>>
    /\ num_sectors = DefaultSectors
    /\ track_raw = <<>>
    /\ NoDominance
    /\ NoArtists

NextInput == PromptYear \/ PromptRound \/ PromptSession \/ PromptChoice \/ PromptDrivers

SpecInput == InitInput /\ [][NextInput]_vars /\ WF_vars(NextInput)

Returned == ui.stage = "returned"

\* an integer of lo..hi, typed with or without blanks around it
TypedWithin(text, lo, hi) ==
    /\ IsIntText(strip(text))
    /\ int(strip(text)) \in lo..hi

\* the answer a looped prompt accepts
Accepted(stage, text) ==
    CASE stage = "year" -> TypedWithin(text, 2018, 2025)
      [] stage = "round" -> TypedWithin(text, 1, 24)
      [] stage = "session" -> upper(strip(text)) \in SessionNames
      [] stage = "choice" -> strip(text) \in {<<"1">>, <<"2">>}
      [] OTHER -> TRUE

\* an upper-cased abbreviation: not empty, no blanks around it, no lower case
IsUpperCased(w) == w # <<>> /\ strip(w) = w /\ upper(w) = w

ReturnsValid ==
    /\ ui.year \in 2018..2025
    /\ ui.round_num \in 1..24
    /\ ui.session_name \in SessionNames
    /\ \/ ui.selected_drivers = <<>>
       \/ /\ Len(ui.selected_drivers) \in 2..3
          /\ \A k \in 1..Len(ui.selected_drivers) : IsUpperCased(ui.selected_drivers[k])

\* a looped prompt asks again after an answer it does not accept
RepromptsInvalid ==
    [][~Accepted(ui.stage, ui'.typed) => ui'.stage = ui.stage]_vars

\* C18: get_user_input asks again after every invalid or empty answer, returns
\* only with a year in [2018, 2025], a round in [1, 24], a session of Q, R,
\* FP1, FP2, FP3 and no selection or 2 to 3 upper-cased abbreviations, and the
\* number of times it asks again is bounded: whatever is typed, it returns.
ClaimC18 ==
    /\ RepromptsInvalid
    /\ [](Returned => ReturnsValid)
    /\ <>Returned

(***************************************************************************)
(* The state built before the frame loop.                                  *)
(***************************************************************************)
\* telemetry, colours, lap times and delta curves of the drivers, the track
\* geometry and the sector dominance
Precomputed ==
    <<drivers_data, reference_driver, deltas, precomputed_deltas, track_len,
      best_rotation, sectors, sector_colors, sector_dominant_drivers>>

FrameLoop == pc = "animating"

\* C19: a call of animate_frame leaves drivers_data, the delta curves, the
\* track geometry, sector_colors and sector_dominant_drivers as they were, and
\* calculate_sector_dominance is called once, before the first frame, and not
\* again during the frame loop.
ClaimC19 ==
    /\ [][FrameLoop => Precomputed' = Precomputed /\ dominance_calls' = dominance_calls]_vars
    /\ [](FrameLoop \/ frame >= 0 => dominance_calls = 1)

\* the second pass of the replay has begun, in a run whose dominance changes
\* hands along the lap
WitnessC19 ==
    /\ FrameLoop
    /\ frame = 0
    /\ \E k \in 1..Len(drivers_data) : telemetry_collections[drivers_data[k].driver].segments > 0
    /\ Cardinality({sector_dominant_drivers[k] : k \in 1..Len(sector_dominant_drivers)}) >= 2
    /\ dominance_calls = 1

(***************************************************************************)
(* The z-order of the telemetry traces.                                    *)
(***************************************************************************)
\* the z-orders of the collections of the driver at enumeration index i
TraceZorders(i) == telemetry_collections[drivers_data[i + 1].driver].zorder

\* the plots with a trace per driver
TracePlots ==
    IF tool = "session" THEN {"speed", "throttle", "brake", "delta"}
    ELSE {"speed", "throttle", "brake"}

\* every collection of the driver at index i is at z-order z
AllAt(i, z) ==
    /\ DOMAIN TraceZorders(i) = TracePlots
    /\ \A c \in TracePlots : TraceZorders(i)[c] = z

\* C20: after every animate_frame(f) with f above the truncation threshold,
\* the trace collections of the driver at enumeration index i are at z-order
\* 5 + i, except those of the elevated driver, which are at 15; with at most
\* 3 drivers the elevated driver's traces are strictly above the traces of
\* every other driver, and all collections of a driver (speed, throttle,
\* brake, and delta in the session tool) share one z-order.
ClaimC20 ==
    (Drawn /\ PastThreshold(tool, frame)) =>
        \E e \in 0..(Len(drivers_data) - 1) :
            /\ AllAt(e, 15)
            /\ \A i \in 0..(Len(drivers_data) - 1) \ {e} :
                /\ AllAt(i, 5 + i)
                /\ \A c, c2 \in TracePlots : TraceZorders(e)[c] > TraceZorders(i)[c2]

\* C20 witness: the session tool with three drivers has drawn a frame above
\* the threshold in which the last driver's traces are the elevated ones.
WitnessC20 ==
    /\ Drawn
    /\ PastThreshold(tool, frame)
    /\ tool = "session"
    /\ Len(drivers_data) = 3
    /\ AllAt(2, 15)
    /\ AllAt(1, 6)
    /\ AllAt(0, 5)

(***************************************************************************)
(* animate_frame called with dominance sequences that hold a sentinel:     *)
(* the sequences calculate_sector_dominance returns for two drivers of     *)
(* MaxLenA samples, with the entries of indices [a, b) replaced by the     *)
(* colour 'gray' and an id that is no key of drivers_data.                 *)
(***************************************************************************)
SentinelIds == {"unknown", "NOR"}

SentinelDriversData(n) ==
    {<<AnimDriver(1, [n |-> n, dp |-> 1, tp |-> 1]),
       AnimDriver(2, [n |-> n, dp |-> 2, tp |-> 1])>>}

\* s with the entries of the 0-based indices [a, b) replaced by v
Overwritten(s, a, b, v) == [j \in 1..Len(s) |-> IF a < j /\ j <= b THEN v ELSE s[j]]

InitSentinel ==
    /\ pc = "dominance"
    /\ ui = UiDone
    /\ tool \in {"session", "quali"}
    /\ session_results = <<>>
    /\ selected_drivers = <<>>
    /\ num_sectors = DefaultSectors
    /\ drivers_data \in SentinelDriversData(MaxLenA)
    /\ track_raw = SquareLap(len(drivers_data[1].telemetry))
    /\ LET r == calculate_sector_dominance(drivers_data, num_sectors)
       IN  \E a \in 0..Len(r.drivers), id \in SentinelIds :
           \E b \in a..Len(r.drivers) :
               /\ sectors = r.sectors
               /\ sector_colors = Overwritten(r.colors, a, b, "gray")
               /\ sector_dominant_drivers = Overwritten(r.drivers, a, b, id)
    /\ dominance_calls = 1
    /\ NoArtists

NextSentinel == SetupPlots \/ InitializeAnimationObjects \/ AnimateFrame

SpecSentinel == InitSentinel /\ [][NextSentinel]_vars

\* the entry is no loaded driver
IsSentinel(d) == d \notin Keys(drivers_data)

Contributes(k, i, send) ==
    \E j \in i..(send - 1) : j < len(drivers_data[k].telemetry)

DominanceReturned == pc = "dominance"

\* C22: for non-empty drivers_data whose traces all have at least one sample,
\* every sector calculate_sector_dominance examines has a contributing sample
\* of every driver, so neither 'gray' nor 'unknown' is in the returned
\* sequences and every returned driver id is a key of drivers_data.
ClaimC22 ==
    (DominanceReturned /\ min_length(drivers_data) >= 1) =>
        /\ \A s \in 1..Len(sectors), k \in 1..Len(drivers_data) :
                Contributes(k, sectors[s][1], sectors[s][2])
        /\ \A j \in 1..Len(sector_colors) : sector_colors[j] # "gray"
        /\ \A j \in 1..Len(sector_dominant_drivers) :
                /\ sector_dominant_drivers[j] # "unknown"
                /\ sector_dominant_drivers[j] \in Keys(drivers_data)

\* C22 witness: three drivers with traces of different lengths, the shortest
\* cut into several sectors.
WitnessC22 ==
    /\ DominanceReturned
    /\ Len(drivers_data) = 3
    /\ Cardinality({len(drivers_data[k].telemetry) : k \in 1..3}) = 3
    /\ Len(sectors) >= 2
    /\ Len(sector_dominant_drivers) = min_length(drivers_data)

(***************************************************************************)
(* The length of the delta curves.                                         *)
(***************************************************************************)
\* the (length, index) pairs of the reads of the slice named arr
SliceReads(arr) == {<<r.n, r.idx>> : r \in {q \in reads : q.arr = arr}}

\* the length of s[:current_frame+1] for the driver at position k
SliceLen(s, k) ==
    Len(PySlice(s, 0, current_frame(len(drivers_data[k].telemetry), frame) + 1))

\* C23: after initialize_animation_objects in the session tool every driver,
\* reference or not, has a precomputed delta curve as long as its own
\* telemetry, whatever the length of the reference trace; so in animate_frame
\* the delta slice and the distance slice of a driver are equally long and
\* the delta segments are as many as the speed segments.
ClaimC23 ==
    (tool = "session" /\ pc \in {"animating", "error"}) =>
        /\ \A k \in 1..Len(drivers_data) :
            /\ drivers_data[k].driver \in DOMAIN precomputed_deltas
            /\ Len(precomputed_deltas[drivers_data[k].driver])
                 = len(drivers_data[k].telemetry)
            /\ frame >= 0 =>
                 SliceLen(precomputed_deltas[drivers_data[k].driver], k)
                   = SliceLen(drivers_data[k].telemetry.Distance, k)
        /\ pc # "error"
        /\ SliceReads("deltas") = SliceReads("distances")

\* C23 witness: the last frame of a pass, above the threshold, has drawn the
\* delta traces of three drivers, one of them with a trace longer than the
\* reference trace.
WitnessC23 ==
    /\ tool = "session"
    /\ Drawn
    /\ frame > 10
    /\ frame = NumFrames(drivers_data) - 1
    /\ SliceReads("deltas") # {}
    /\ Len(drivers_data) = 3
    /\ \E k \in 1..Len(drivers_data) :
        len(drivers_data[k].telemetry) > len(DriverOf(reference_driver).telemetry)

(***************************************************************************)
(* The located sample along a pass: the session tool with one or two       *)
(* drivers of 2 to MaxLenT samples whose times advance by one, by two or   *)
(* three, or by one every second sample (equal times in pairs).            *)
(***************************************************************************)
MaxLenT == 6         \* longest trace of the time inputs

TimeParams(maxlen) == [n : {2, 3, maxlen - 1, maxlen}, dp : {1}, tp : 1..3]

TimeDriversData(maxlen) ==
    {<<AnimDriver(1, q)>> : q \in TimeParams(maxlen)}
    \cup {<<AnimDriver(1, q[1]), AnimDriver(2, q[2])>> :
            q \in TimeParams(maxlen) \X TimeParams(maxlen)}

InitTime ==
    /\ pc = "run"
    /\ ui = UiDone
    /\ tool = "session"
    /\ session_results = <<>>
    /\ selected_drivers = <<>>
    /\ num_sectors = DefaultSectors
    /\ drivers_data \in TimeDriversData(MaxLenT)
    /\ track_raw = SquareLap(len(drivers_data[1].telemetry))
    /\ NoDominance
    /\ NoArtists

NextTime ==
    \/ CalculateSectorDominance
    \/ SetupPlots
    \/ InitializeAnimationObjects
    \/ AnimateFrame

SpecTime == InitTime /\ [][NextTime]_vars

\* the sample animate_frame(f) locates for the driver at position k
Located(k, f) == time_idx(drivers_data, k, f)

LastSample(k) == len(drivers_data[k].telemetry) - 1

\* a call of animate_frame with a later frame of the same pass
LaterFrame ==
    /\ tool = "session"
    /\ pc = "animating"
    /\ pc' = "animating"
    /\ frame >= 0
    /\ frame' > frame

\* C24: in the session tool, with elapsed times that do not decrease, for
\* frames visited in increasing order within one pass the located sample
\* index of every driver stays in [0, len-1] and never decreases from one
\* frame to the next, and a driver clamped to its last sample stays at its
\* last sample for every later frame of the pass.
ClaimC24 ==
    [][LaterFrame =>
        \A k \in 1..Len(drivers_data) :
            /\ Located(k, frame) \in 0..LastSample(k)
            /\ Located(k, frame') \in 0..LastSample(k)
            /\ Located(k, frame) <= Located(k, frame')
            /\ Located(k, frame) = LastSample(k) => Located(k, frame') = LastSample(k)]_vars

\* C24 witness: a pass has reached a frame at which one driver has advanced
\* by a sample and another, whose times hold equal values, has been at its
\* last sample, past its last elapsed time, for two frames.
WitnessC24 ==
    /\ tool = "session"
    /\ Drawn
    /\ frame >= 2
    /\ \E k, h \in 1..Len(drivers_data) :
        /\ \E j \in 1..LastSample(h) : ElapsedOf(h)[j] = ElapsedOf(h)[j + 1]
        /\ Located(k, frame) > Located(k, frame - 1)
        /\ ~ ClockAtMost(current_elapsed_time(drivers_data, frame - 1),
                         ElapsedOf(h)[LastSample(h) + 1])
        /\ Located(h, frame - 1) = LastSample(h)
        /\ Located(h, frame) = LastSample(h)

====
